---- MODULE Spec2Model ----
(***************************************************************************)
(* Model of the review generation pipeline: the LangGraph state graph of   *)
(* src/graph/review_graph.py, its nodes (src/nodes/*.py) and the driver    *)
(* generate_command of cli/main.py that runs the graph under a recursion   *)
(* limit and saves the result.                                             *)
(*                                                                         *)
(* Numbers the code holds as floats are held as integers in hundredths     *)
(* (0.85 is 85); ratios that are not whole hundredths are held as exact    *)
(* fractions <<numerator, denominator>>.                                   *)
(***************************************************************************)
EXTENDS Integers, Sequences, FiniteSets, TLC

VARIABLES
    accepted_reviews,   \* state["accepted_reviews"]
    rejected_reviews,   \* state["rejected_reviews"]
    metrics_per_model,  \* state["metrics_per_model"]
    current_review,     \* state["current_review"]
    feedback,           \* state["feedback"]
    config,             \* state["config"]: the loaded DomainConfig
    target_size,        \* state["target_size"]
    env,                \* what the outside world can do in this run
    pc,                 \* the graph node that runs next ("END" when none)
    steps,              \* node executions of this graph.invoke so far
    drafts,             \* provider.generate calls made for the attempt in flight
    regens,             \* prepare_regeneration runs made for the attempt in flight
    prompt,             \* what the latest draft of the attempt in flight was asked
                        \* with (None before its first draft)
    proc,               \* generate_command: running / saved / exited
    saved,              \* what generate_command wrote to the output directory
    aliased,            \* the list whose last entry holds the very quality_scores
                        \* dict of current_review ("none" when no stored entry does)
    warned              \* should_continue printed its safety warning

vars == <<accepted_reviews, rejected_reviews, metrics_per_model, current_review,
          feedback, config, target_size, env, pc, steps, drafts, regens, prompt,
          proc, saved, aliased, warned>>

-----------------------------------------------------------------------------
(* Bounds of the model *)

MaxTarget == 2
MaxRetries == 2
MaxAttempts == 2
NumTexts == 2
Tick == 1
LongTarget == 144
ExampleTarget == 10
MaxCorpus == 2

(* Program constants *)

MinRecursionLimit == 1000
IterationFactor == 5
AttemptFactor == 10
DefaultVocabThreshold == 30
DefaultSemanticThreshold == 85
DefaultZThreshold == 200
DefaultRealismThreshold == 70
DefaultMaxRetries == 2

-----------------------------------------------------------------------------
(* Values *)

None == [kind |-> "None"]
NoText == 0
\* a review_text that is "" or whitespace only
BlankText == -1
Texts == 1..NumTexts
Guardrails == {"diversity", "bias", "realism"}

Max(a, b) == IF a >= b THEN a ELSE b
Min(a, b) == IF a <= b THEN a ELSE b
Abs(a) == IF a >= 0 THEN a ELSE -a

\* sum(s), adding the two halves of s
RECURSIVE SumSeq(_)
SumSeq(s) ==
    IF Len(s) = 0 THEN 0
    ELSE IF Len(s) = 1 THEN s[1]
    ELSE LET half == Len(s) \div 2
         IN  SumSeq(SubSeq(s, 1, half)) + SumSeq(SubSeq(s, half + 1, Len(s)))

\* max(s) of a non-empty s
MaxSeq(s) == CHOOSE m \in {s[i] : i \in DOMAIN s} : \A i \in DOMAIN s : s[i] <= m

-----------------------------------------------------------------------------
(* Texts.  A draft is a non-blank string; the model holds a text by its    *)
(* number and the operators below give what the code and the libraries it  *)
(* calls read from it: its whitespace-separated words (each a stem and a   *)
(* case), its "!" count, its VADER compound score, its sentence embedding. *)

Word(stem, up) == [stem |-> stem, up |-> up]

TextWords(t) ==
    CASE t = 1 -> [i \in 1..10 |-> Word(i, FALSE)]
      [] t = 2 -> <<Word(1, FALSE), Word(11, FALSE), Word(12, TRUE), Word(13, FALSE)>>
      [] OTHER -> [i \in 1..10 |-> Word(i, TRUE)]

TextBangs(t) == IF t = 1 THEN 1 ELSE 0

\* str.lower() of one word
Lower(w) == [w EXCEPT !.up = FALSE]

\* set(text.lower().split())
WordSet(t) == {Lower(TextWords(t)[i]) : i \in 1..Len(TextWords(t))}

\* SentimentAnalyzer.analyze(text)["compound"], in hundredths
Compound(t) ==
    CASE t = 1 -> 80
      [] t = 2 -> -60
      [] OTHER -> 5 * t

\* EmbeddingModel.encode([text])[0]
Embedding(t) ==
    CASE t = 1 -> <<3, 4>>
      [] t = 2 -> <<1, 0>>
      [] OTHER -> <<4, 3>>

-----------------------------------------------------------------------------
(* Configuration (DomainConfig) *)

Providers == {"openai", "groq", "openrouter"}

\* ModelConfig: the model name is a string, held as its pieces around any ":"
ModelConfig(provider, model) == [provider |-> provider, model |-> model]

GptMini == ModelConfig("openai", <<"gpt-4o-mini">>)
Llama == ModelConfig("groq", <<"llama-3.3-70b-versatile">>)
Sonnet == ModelConfig("openrouter", <<"anthropic/claude-3.7-sonnet">>)
FineTuned == ModelConfig("openai", <<"ft", ":", "gpt-4o-mini", ":", "acme">>)

PersonaConfig(n) == [name |-> n, tone |-> "neutral", expectations |-> <<"quality">>]

\* GuardrailConfig with the schema's default thresholds
GuardrailConfig(vocab, semantic, retries) ==
    [diversity |-> [vocab_overlap_threshold |-> vocab,
                    semantic_similarity_threshold |-> semantic],
     bias |-> [z_score_threshold |-> DefaultZThreshold],
     realism |-> [realism_score_threshold |-> DefaultRealismThreshold],
     max_retries |-> retries]

DomainConfig(models, ratings, guardrails) ==
    [personas |-> <<PersonaConfig(1)>>,
     rating_distribution |-> ratings,
     models |-> models,
     guardrails |-> guardrails]

\* f"{model_config.provider}:{model_config.model}"
ModelId(m) == <<m.provider, ":">> \o m.model

\* model_id.rsplit(":", 1): a split at the last colon
SplitModelIdAtLastColon(id) ==
    LET colons == {i \in 1..Len(id) : id[i] = ":"}
        last == CHOOSE i \in colons : \A j \in colons : i >= j
    IN  [provider_name |-> SubSeq(id, 1, last - 1),
         model_name |-> SubSeq(id, last + 1, Len(id))]

\* model_id.split(":", 1)
SplitModelId(id) ==
    LET colons == {i \in 1..Len(id) : id[i] = ":"}
        first == CHOOSE i \in colons : \A j \in colons : i <= j
    IN  [provider_name |-> SubSeq(id, 1, first - 1),
         model_name |-> SubSeq(id, first + 1, Len(id))]

\* the loop of generate_review over config.models: the indices that match
MatchingModels(cfg, id) ==
    {i \in 1..Len(cfg.models) :
        /\ <<cfg.models[i].provider>> = SplitModelId(id).provider_name
        /\ cfg.models[i].model = SplitModelId(id).model_name}

\* create_provider raises ValueError: unsupported provider, or no API key
CreateProviderRaises(m, keys) ==
    \/ m.provider \notin {"openai", "groq"}
    \/ m.provider \notin keys

-----------------------------------------------------------------------------
(* ReviewState *)

Absent == [absent |-> TRUE]
EmptyScores == [diversity |-> Absent, bias |-> Absent, realism |-> Absent]

Str(parts) == [kind |-> "str", parts |-> parts]

\* a new attempt that starts with one retry already counted
FreshReviewAlreadyRetried(persona, rating, model_id) ==
    [persona |-> persona,
     rating |-> rating,
     model_id |-> model_id,
     review_text |-> NoText,
     quality_scores |-> EmptyScores,
     is_valid |-> FALSE,
     rejection_reason |-> None,
     generation_time |-> 0,
     evaluation_time |-> 0,
     retry_count |-> 1]

\* the review dict sample_persona_and_rating builds
FreshReview(persona, rating, model_id) ==
    [persona |-> persona,
     rating |-> rating,
     model_id |-> model_id,
     review_text |-> NoText,
     quality_scores |-> EmptyScores,
     is_valid |-> FALSE,
     rejection_reason |-> None,
     generation_time |-> 0,
     evaluation_time |-> 0,
     retry_count |-> 0]

\* the placeholder generate_command puts in initial_state
InitialReview ==
    FreshReview([name |-> 0, tone |-> "", expectations |-> <<>>], 0, <<>>)

\* quality_scores.get(g, {}).get("pass", False)
GuardrailPass(review, g) ==
    /\ review.quality_scores[g] /= Absent
    /\ review.quality_scores[g].pass

\* not review_text, or review_text.strip() empty
TextEmpty(review) == review.review_text \in {NoText, BlankText}

-----------------------------------------------------------------------------
(* Exact arithmetic: a ratio is <<numerator, denominator>>, denominator > 0 *)

RECURSIVE Gcd(_, _)
Gcd(a, b) == IF b = 0 THEN a ELSE Gcd(b, a % b)

Reduce(f) ==
    LET g == Gcd(Abs(f[1]), f[2]) IN <<f[1] \div g, f[2] \div g>>

AddFrac(f, g) == Reduce(<<f[1] * g[2] + g[1] * f[2], f[2] * g[2]>>)

\* sum(s) of ratios, adding the two halves of s
RECURSIVE SumFrac(_)
SumFrac(s) ==
    IF Len(s) = 0 THEN <<0, 1>>
    ELSE IF Len(s) = 1 THEN Reduce(s[1])
    ELSE LET half == Len(s) \div 2
         IN  AddFrac(SumFrac(SubSeq(s, 1, half)), SumFrac(SubSeq(s, half + 1, Len(s))))

\* f < h/100
FracBelow(f, h) == f[1] * 100 < h * f[2]

\* the integer square root, by bisection
RECURSIVE ISqrtIn(_, _, _)
ISqrtIn(n, lo, hi) ==
    IF lo >= hi THEN lo
    ELSE LET mid == (lo + hi + 1) \div 2
         IN  IF mid * mid <= n THEN ISqrtIn(n, mid, hi) ELSE ISqrtIn(n, lo, mid - 1)

ISqrt(n) == ISqrtIn(n, 0, Min(n, 46340))

\* f"{x:.2f}" of a ratio, in hundredths
Fmt2(f) == (200 * f[1] + f[2]) \div (2 * f[2])

\* n1/d1 <= n2/d2 for ratios of naturals, by their continued fractions (no
\* product is formed, so that no intermediate value leaves the integer range)
RECURSIVE LeqFrac(_, _, _, _)
LeqFrac(n1, d1, n2, d2) ==
    IF n1 \div d1 /= n2 \div d2 THEN n1 \div d1 < n2 \div d2
    ELSE IF n1 % d1 = 0 THEN TRUE
    ELSE IF n2 % d2 = 0 THEN FALSE
    ELSE LeqFrac(d2, n2 % d2, d1, n1 % d1)

\* the largest q in lo..hi with q / 200 <= dev / sqrt(var), by bisection
RECURSIVE HalfHundredths(_, _, _)
HalfHundredths(z, lo, hi) ==
    IF lo >= hi THEN lo
    ELSE LET mid == (lo + hi + 1) \div 2
         IN  IF LeqFrac(mid * mid, 40000, z.dev * z.dev, z.var)
             THEN HalfHundredths(z, mid, hi)
             ELSE HalfHundredths(z, lo, mid - 1)

\* f"{z:.2f}" of dev / sqrt(var), in hundredths
FmtRoot(z) == (HalfHundredths(z, 0, 46340) + 1) \div 2

\* the texts of the accepted reviews that have one: r.get("review_text") truthy
AcceptedTexts(accepted) ==
    LET has == SelectSeq(accepted, LAMBDA r : r.review_text /= NoText)
    IN  [i \in 1..Len(has) |-> has[i].review_text]

-----------------------------------------------------------------------------
(* Diversity guardrail *)

\* len(a & b) / len(a | b) of two word sets
Jaccard(a, b) == Reduce(<<Cardinality(a \cap b), Cardinality(a \cup b)>>)

\* a vocabulary overlap taken against the latest accepted text only
AvgVocabOverlapWithLatest(t, texts) ==
    IF Len(texts) = 0 THEN <<0, 1>>
    ELSE Jaccard(WordSet(t), WordSet(texts[Len(texts)]))

\* avg_vocab_overlap of check_diversity
AvgVocabOverlap(t, texts) ==
    LET with == SelectSeq(texts, LAMBDA u : Cardinality(WordSet(t) \cup WordSet(u)) > 0)
        overlaps == [i \in 1..Len(with) |-> Jaccard(WordSet(t), WordSet(with[i]))]
        total == SumFrac(overlaps)
    IN  IF Len(with) = 0 THEN <<0, 1>>
        ELSE Reduce(<<total[1], total[2] * Len(with)>>)

Dot(a, b) == a[1] * b[1] + a[2] * b[2]
Norm(a) == ISqrt(Dot(a, a))

\* EmbeddingModel.batch_similarity, one candidate, in hundredths
Similarity(query, candidate) ==
    IF Norm(query) = 0 THEN 0
    ELSE (100 * Dot(candidate, query))
            \div ((IF Norm(candidate) = 0 THEN 1 ELSE Norm(candidate)) * Norm(query))

\* max_semantic_similarity of check_diversity
MaxSemanticSimilarity(t, texts) ==
    IF Len(texts) = 0 THEN 0
    ELSE MaxSeq([i \in 1..Len(texts) |-> Similarity(Embedding(t), Embedding(texts[i]))])

\* a diversity scorer without the test for a missing draft text
DiversityScoresOfAnyDraft(review, accepted, cfg) ==
    IF Len(accepted) = 0
    THEN [vocab_overlap |-> <<0, 1>>, semantic_similarity |-> 0, pass |-> TRUE]
    ELSE LET texts == AcceptedTexts(accepted)
             overlap == AvgVocabOverlap(review.review_text, texts)
             sim == MaxSemanticSimilarity(review.review_text, texts)
         IN  [vocab_overlap |-> overlap,
              semantic_similarity |-> sim,
              pass |-> /\ FracBelow(overlap, cfg.guardrails.diversity.vocab_overlap_threshold)
                       /\ sim < cfg.guardrails.diversity.semantic_similarity_threshold]

\* a diversity scorer that lets a value equal to its threshold pass
DiversityScoresUpToThreshold(review, accepted, cfg) ==
    IF review.review_text = NoText
    THEN [vocab_overlap |-> <<1, 1>>, semantic_similarity |-> 100, pass |-> FALSE]
    ELSE IF Len(accepted) = 0
    THEN [vocab_overlap |-> <<0, 1>>, semantic_similarity |-> 0, pass |-> TRUE]
    ELSE LET texts == AcceptedTexts(accepted)
             overlap == AvgVocabOverlap(review.review_text, texts)
             sim == MaxSemanticSimilarity(review.review_text, texts)
         IN  [vocab_overlap |-> overlap,
              semantic_similarity |-> sim,
              pass |-> /\ overlap[1] * 100
                            <= cfg.guardrails.diversity.vocab_overlap_threshold * overlap[2]
                       /\ sim <= cfg.guardrails.diversity.semantic_similarity_threshold]

DiversityScores(review, accepted, cfg) ==
    IF review.review_text = NoText
    THEN [vocab_overlap |-> <<1, 1>>, semantic_similarity |-> 100, pass |-> FALSE]
    ELSE IF Len(accepted) = 0
    THEN [vocab_overlap |-> <<0, 1>>, semantic_similarity |-> 0, pass |-> TRUE]
    ELSE LET texts == AcceptedTexts(accepted)
             overlap == AvgVocabOverlap(review.review_text, texts)
             sim == MaxSemanticSimilarity(review.review_text, texts)
         IN  [vocab_overlap |-> overlap,
              semantic_similarity |-> sim,
              pass |-> /\ FracBelow(overlap, cfg.guardrails.diversity.vocab_overlap_threshold)
                       /\ sim < cfg.guardrails.diversity.semantic_similarity_threshold]

-----------------------------------------------------------------------------
(* Bias guardrail *)

\* an alignment test with strict inequalities at 0.1 and -0.1
SentimentAlignedStrictly(rating, compound) ==
    IF rating >= 4 THEN compound > 10
    ELSE IF rating <= 2 THEN compound < -10
    ELSE Abs(compound) < 30

\* sentiment_aligned of check_bias, the compound score in hundredths
SentimentAligned(rating, compound) ==
    IF rating >= 4 THEN compound >= 10
    ELSE IF rating <= 2 THEN compound <= -10
    ELSE Abs(compound) < 30

\* the corpus sizes up to 150 at which np.mean of that many sentiments of 0.8
\* is 0.8 again: the doubles are added pairwise and the sum divided by the
\* size, and at every other size the quotient is one unit in the last place
\* away from 0.8
ExactMeanSizes ==
    {1, 2, 4, 5, 8, 9, 10, 11, 16, 17, 32, 33, 34, 40, 104, 105, 112, 113, 114,
     115, 121, 122, 123, 124, 125}

\* np.mean of n sentiments that all equal v is v: of the sentiments of the
\* texts, only 0.8 misses it at a size below 10
MeanIsExact(v, n) == v /= 80 \/ n \in ExactMeanSizes

\* z_score of check_bias, exactly: the value is dev / sqrt(var)
ZScore(compound, sentiments) ==
    LET n == Len(sentiments)
        total == SumSeq(sentiments)
        squares == SumSeq([i \in 1..n |-> sentiments[i] * sentiments[i]])
        spread == n * squares - total * total
    IN  IF n = 0 THEN [dev |-> 0, var |-> 1]
        ELSE IF n = 1 THEN [dev |-> Abs(compound - total), var |-> 10000]
        ELSE IF spread > 0 THEN [dev |-> Abs(n * compound - total), var |-> spread]
        ELSE IF MeanIsExact(sentiments[1], n) THEN [dev |-> 0, var |-> 1]
        ELSE IF compound = sentiments[1] THEN [dev |-> 1, var |-> 1]
        ELSE [dev |-> Abs(compound - sentiments[1]) * 100, var |-> 1]

\* z < threshold/100, with the common factor of threshold and 100 cancelled
ZBelow(z, threshold) ==
    LET g == Gcd(threshold, 100)
        a == z.dev * (100 \div g)
        b == threshold \div g
    IN  a * a < b * b * z.var

\* a bias pass condition without the exemption of z_score == 0.0
ZNeverExempt(z) == FALSE

\* z_score == 0.0
ZIsZero(z) == z.dev = 0

\* a bias scorer without the test for a missing draft text
BiasScoresOfAnyDraft(review, accepted, cfg) ==
    LET compound == Compound(review.review_text)
        aligned == SentimentAligned(review.rating, compound)
        texts == AcceptedTexts(accepted)
        z == ZScore(compound, [i \in 1..Len(texts) |-> Compound(texts[i])])
    IN  [sentiment_rating_aligned |-> aligned,
         sentiment_compound |-> compound,
         z_score |-> z,
         pass |-> aligned /\ (ZBelow(z, cfg.guardrails.bias.z_score_threshold)
                                \/ ZIsZero(z))]

\* a bias scorer that fails every draft the diversity scorer has not passed
BiasScoresAfterDiversity(review, accepted, cfg) ==
    IF review.review_text = NoText
    THEN [sentiment_rating_aligned |-> FALSE, z_score |-> [dev |-> 0, var |-> 1],
          pass |-> FALSE]
    ELSE LET compound == Compound(review.review_text)
             aligned == SentimentAligned(review.rating, compound)
             texts == AcceptedTexts(accepted)
             z == ZScore(compound, [i \in 1..Len(texts) |-> Compound(texts[i])])
         IN  [sentiment_rating_aligned |-> aligned,
              sentiment_compound |-> compound,
              z_score |-> z,
              pass |-> /\ GuardrailPass(review, "diversity")
                       /\ aligned
                       /\ (ZBelow(z, cfg.guardrails.bias.z_score_threshold) \/ ZIsZero(z))]

BiasScores(review, accepted, cfg) ==
    IF review.review_text = NoText
    THEN [sentiment_rating_aligned |-> FALSE, z_score |-> [dev |-> 0, var |-> 1],
          pass |-> FALSE]
    ELSE LET compound == Compound(review.review_text)
             aligned == SentimentAligned(review.rating, compound)
             texts == AcceptedTexts(accepted)
             z == ZScore(compound, [i \in 1..Len(texts) |-> Compound(texts[i])])
         IN  [sentiment_rating_aligned |-> aligned,
              sentiment_compound |-> compound,
              z_score |-> z,
              pass |-> aligned /\ (ZBelow(z, cfg.guardrails.bias.z_score_threshold)
                                     \/ ZIsZero(z))]

-----------------------------------------------------------------------------
(* Realism guardrail *)

\* "gpt" in m.model.lower()
NameHasGpt(model) == \E i \in 1..Len(model) : model[i] \in {"gpt-4o-mini", "GPT-4"}

\* the loop of check_realism over config.models, then the fallback to models[0]
ValidationModel(cfg) ==
    LET preferred == {i \in 1..Len(cfg.models) :
                        \/ cfg.models[i].provider = "groq"
                        \/ /\ cfg.models[i].provider = "openai"
                           /\ NameHasGpt(cfg.models[i].model)}
    IN  IF preferred = {} THEN cfg.models[1]
        ELSE cfg.models[CHOOSE i \in preferred : \A j \in preferred : i <= j]

(* A judge response is a sequence of characters, with the literal "Score:"  *)
(* held as one character.                                                   *)
Digits == {"0", "1", "2", "3", "4", "5", "6", "7", "8", "9"}
NumChars == Digits \cup {"."}

DigitVal(c) ==
    CASE c = "0" -> 0 [] c = "1" -> 1 [] c = "2" -> 2 [] c = "3" -> 3 [] c = "4" -> 4
      [] c = "5" -> 5 [] c = "6" -> 6 [] c = "7" -> 7 [] c = "8" -> 8 [] c = "9" -> 9

\* the longest run of characters of class cs that starts at index i
RECURSIVE RunFrom(_, _, _)
RunFrom(s, i, cs) ==
    IF i > Len(s) \/ s[i] \notin cs THEN <<>> ELSE <<s[i]>> \o RunFrom(s, i + 1, cs)

\* the first index at or after i that holds no whitespace
RECURSIVE SkipSpace(_, _)
SkipSpace(s, i) == IF i <= Len(s) /\ s[i] = " " THEN SkipSpace(s, i + 1) ELSE i

Least(S) == CHOOSE i \in S : \A j \in S : i <= j

\* re.search(r"Score:\s*([0-9.]+)", response).group(1), or <<>> for no match
MatchScore(s) ==
    LET at == {i \in 1..Len(s) : s[i] = "Score:" /\ RunFrom(s, SkipSpace(s, i + 1), NumChars) /= <<>>}
    IN  IF at = {} THEN <<>> ELSE RunFrom(s, SkipSpace(s, Least(at) + 1), NumChars)

\* re.search(r"([0-9]\.[0-9]+)", response).group(1), or <<>>
MatchDecimal(s) ==
    LET at == {i \in 1..(Len(s) - 2) :
                    s[i] \in Digits /\ s[i + 1] = "." /\ s[i + 2] \in Digits}
    IN  IF at = {} THEN <<>>
        ELSE <<s[Least(at)], ".">> \o RunFrom(s, Least(at) + 2, Digits)

\* re.search(r"([0-9])", response).group(1), or <<>>
MatchDigit(s) ==
    LET at == {i \in 1..Len(s) : s[i] \in Digits}
    IN  IF at = {} THEN <<>> ELSE <<s[Least(at)]>>

\* float(text) raises ValueError: no digit, or more than one "."
FloatRaises(g) ==
    \/ \A i \in 1..Len(g) : g[i] \notin Digits
    \/ Cardinality({i \in 1..Len(g) : g[i] = "."}) > 1

RECURSIVE IntOf(_)
IntOf(g) == IF g = <<>> THEN 0 ELSE 10 * IntOf(SubSeq(g, 1, Len(g) - 1)) + DigitVal(g[Len(g)])

\* float(text) in hundredths; decimals past the second are dropped
FloatOf(g) ==
    LET whole == RunFrom(g, 1, Digits)
        frac == RunFrom(g, Len(whole) + 2, Digits)
        two == SubSeq(frac \o <<"0", "0">>, 1, 2)
    IN  100 * IntOf(whole) + IntOf(two)

\* the normalisation of parse_realism_score
NormalizeScore(score) ==
    LET scaled == IF score > 100
                  THEN (IF score <= 1000 THEN score \div 10 ELSE 100)
                  ELSE score
    IN  Max(0, Min(100, scaled))

\* the group parse_realism_score converts: the first pattern that matches
MatchedGroup(s) ==
    IF MatchScore(s) /= <<>> THEN MatchScore(s)
    ELSE IF MatchDecimal(s) /= <<>> THEN MatchDecimal(s)
    ELSE MatchDigit(s)

ParseRaises(s) == MatchedGroup(s) /= <<>> /\ FloatRaises(MatchedGroup(s))

parse_realism_score(s) ==
    IF MatchedGroup(s) = <<>> THEN 50 ELSE NormalizeScore(FloatOf(MatchedGroup(s)))

DomainTerms == {1}

heuristic_realism_score(t) ==
    LET words == TextWords(t)
        word_count == Len(words)
        base == 50
        sized == IF 10 <= word_count /\ word_count <= 200 THEN base + 20
                 ELSE IF word_count < 5 THEN base - 20
                 ELSE base
        termed == IF \E i \in 1..word_count : words[i].stem \in DomainTerms
                  THEN sized + 20 ELSE sized
        isupper == \A i \in 1..word_count : words[i].up
        balanced == IF ~isupper /\ TextBangs(t) < 5 THEN termed + 10 ELSE termed
    IN  IF t = NoText THEN 0 ELSE Max(0, Min(100, balanced))

(* What the judge call does: create_provider or generate raises, the        *)
(* response is empty, or the response is a text.                            *)
JudgeRaise == [kind |-> "raise", response |-> <<>>]
JudgeEmpty == [kind |-> "empty", response |-> <<>>]
JudgeSays(s) == [kind |-> "text", response |-> s]

ScoreHigh == <<"Score:", " ", "0", ".", "8", "5">>
ScoreLow == <<"0", ".", "4">>

\* not response.strip()
IsBlank(s) == \A i \in 1..Len(s) : s[i] = " "

\* a realism scorer that gives 0.0 when the judge cannot be asked or says nothing
RealismScoreWithoutFallback(t, cfg, keys, judge) ==
    IF \/ CreateProviderRaises(ValidationModel(cfg), keys)
       \/ judge.kind = "raise"
    THEN 0
    ELSE IF judge.kind = "empty" \/ IsBlank(judge.response) THEN 0
    ELSE IF ParseRaises(judge.response) THEN heuristic_realism_score(t)
    ELSE parse_realism_score(judge.response)

\* realism_score of check_realism for a non-empty draft
RealismScore(t, cfg, keys, judge) ==
    IF \/ CreateProviderRaises(ValidationModel(cfg), keys)
       \/ judge.kind = "raise"
    THEN heuristic_realism_score(t)
    ELSE IF judge.kind = "empty" \/ IsBlank(judge.response) THEN heuristic_realism_score(t)
    ELSE IF ParseRaises(judge.response) THEN heuristic_realism_score(t)
    ELSE parse_realism_score(judge.response)

RealismScores(review, cfg, keys, judge) ==
    IF review.review_text = NoText
    THEN [realism_score |-> 0, pass |-> FALSE]
    ELSE LET score == RealismScore(review.review_text, cfg, keys, judge)
         IN  [realism_score |-> score,
              pass |-> score >= cfg.guardrails.realism.realism_score_threshold]

-----------------------------------------------------------------------------
(* Aggregation *)

\* d.get(field, default) of a score record that may be missing
Get(scores, field, default) ==
    IF scores = Absent \/ field \notin DOMAIN scores THEN default ELSE scores[field]

DiversityReason(review, cfg) ==
    [failed |-> "Diversity",
     shown |-> <<Fmt2(Get(review.quality_scores.diversity, "vocab_overlap", <<0, 1>>)),
                 cfg.guardrails.diversity.vocab_overlap_threshold,
                 Get(review.quality_scores.diversity, "semantic_similarity", 0),
                 cfg.guardrails.diversity.semantic_similarity_threshold>>]

BiasReason(review, cfg) ==
    [failed |-> "Bias",
     shown |-> <<Get(review.quality_scores.bias, "sentiment_rating_aligned", FALSE),
                 Get(review.quality_scores.bias, "sentiment_compound", 0),
                 FmtRoot(Get(review.quality_scores.bias, "z_score", [dev |-> 0, var |-> 1])),
                 cfg.guardrails.bias.z_score_threshold>>]

RealismReason(review, cfg) ==
    [failed |-> "Realism",
     shown |-> <<Get(review.quality_scores.realism, "realism_score", 0),
                 cfg.guardrails.realism.realism_score_threshold>>]

\* a rejection reason that lists the bias failure before the diversity failure
RejectionReasonBiasFirst(review, cfg) ==
    Str((IF GuardrailPass(review, "bias") THEN <<>> ELSE <<BiasReason(review, cfg)>>)
        \o (IF GuardrailPass(review, "diversity") THEN <<>> ELSE <<DiversityReason(review, cfg)>>)
        \o (IF GuardrailPass(review, "realism") THEN <<>> ELSE <<RealismReason(review, cfg)>>))

\* "; ".join(reasons) of aggregate_guardrails
RejectionReason(review, cfg) ==
    Str((IF GuardrailPass(review, "diversity") THEN <<>> ELSE <<DiversityReason(review, cfg)>>)
        \o (IF GuardrailPass(review, "bias") THEN <<>> ELSE <<BiasReason(review, cfg)>>)
        \o (IF GuardrailPass(review, "realism") THEN <<>> ELSE <<RealismReason(review, cfg)>>))

AllPass(review) ==
    /\ GuardrailPass(review, "diversity")
    /\ GuardrailPass(review, "bias")
    /\ GuardrailPass(review, "realism")

\* f"Generation error: {detail}"
GenerationError(detail) == Str(<<[failed |-> "Generation", shown |-> <<detail>>]>>)

\* an aggregation that leaves the realism verdict out of the conjunction
AggregatedWithoutRealism(review, cfg) ==
    IF TextEmpty(review)
    THEN [review EXCEPT !.is_valid = FALSE,
                        !.rejection_reason =
                            GenerationError("Empty or invalid review text")]
    ELSE [review EXCEPT !.is_valid = /\ GuardrailPass(review, "diversity")
                                     /\ GuardrailPass(review, "bias"),
                        !.rejection_reason =
                            IF AllPass(review) THEN None ELSE RejectionReason(review, cfg)]

\* an aggregation without the early exit for an empty draft text
AggregatedWithoutEarlyExit(review, cfg) ==
    [review EXCEPT !.is_valid = AllPass(review),
                   !.rejection_reason =
                        IF AllPass(review) THEN None ELSE RejectionReason(review, cfg)]

\* an aggregation that never records why a draft with text is invalid
AggregatedWithoutReason(review, cfg) ==
    IF TextEmpty(review)
    THEN [review EXCEPT !.is_valid = FALSE,
                        !.rejection_reason =
                            GenerationError("Empty or invalid review text")]
    ELSE [review EXCEPT !.is_valid = AllPass(review),
                        !.rejection_reason = None]

\* the review aggregate_guardrails leaves in state["current_review"]
Aggregated(review, cfg) ==
    IF TextEmpty(review)
    THEN [review EXCEPT !.is_valid = FALSE,
                        !.rejection_reason =
                            GenerationError("Empty or invalid review text")]
    ELSE [review EXCEPT !.is_valid = AllPass(review),
                        !.rejection_reason =
                            IF AllPass(review) THEN None ELSE RejectionReason(review, cfg)]

-----------------------------------------------------------------------------
(* Routing *)

\* a retry test that still allows a retry at retry_count = max_retries
should_retry_once_more(review, cfg) ==
    IF review.retry_count <= cfg.guardrails.max_retries THEN "retry" ELSE "reject"

should_retry(review, cfg) ==
    IF review.retry_count < cfg.guardrails.max_retries THEN "retry" ELSE "reject"

\* a route that rejects an invalid draft at once, whatever its retry_count
route_without_retries(review, cfg) ==
    IF review.is_valid THEN "accept" ELSE "reject"

route_after_aggregation(review, cfg) ==
    IF review.is_valid THEN "accept"
    ELSE IF should_retry(review, cfg) = "retry" THEN "retry"
    ELSE "reject"

\* a graph whose retry edge samples a new attempt, leaving the failed one behind
AggregateEdgeAbandoningRetries(route) ==
    CASE route = "accept" -> "accept"
      [] route = "retry" -> "sample"
      [] route = "reject" -> "reject"

\* the node each route of the conditional edge after "aggregate" leads to
AggregateEdge(route) ==
    CASE route = "accept" -> "accept"
      [] route = "retry" -> "prepare_retry"
      [] route = "reject" -> "reject"

\* a continue test without the safety stop
NeverTooManyAttempts(accepted, rejected, target) == FALSE

\* a safety stop that already fires at exactly 10 x target_size attempts
TooManyAttemptsAtTheLimit(accepted, rejected, target) ==
    Len(accepted) + Len(rejected) >= target * AttemptFactor

\* the second test of should_continue: the safety stop
TooManyAttempts(accepted, rejected, target) ==
    Len(accepted) + Len(rejected) > target * AttemptFactor

\* a continue test that still continues at exactly target_size accepted reviews
should_continue_at_target(accepted, rejected, target) ==
    IF Len(accepted) > target THEN "finish"
    ELSE IF TooManyAttempts(accepted, rejected, target) THEN "finish"
    ELSE "continue"

should_continue(accepted, rejected, target) ==
    IF Len(accepted) >= target THEN "finish"
    ELSE IF TooManyAttempts(accepted, rejected, target) THEN "finish"
    ELSE "continue"

\* the node each route of the conditional edges after "accept" and "reject" leads to
ContinueEdge(route) == IF route = "continue" THEN "sample" ELSE "END"

NewMetrics ==
    [accepted_count |-> 0, rejected_count |-> 0, total_generation_time |-> 0,
     total_evaluation_time |-> 0, total_retries |-> 0]

\* a metrics update that starts the model's entry afresh every time
MetricsWithFreshEntry(metrics, review, counter) ==
    LET id == review.model_id
        new == [NewMetrics EXCEPT ![counter] = @ + 1,
                                  !.total_generation_time = @ + review.generation_time,
                                  !.total_evaluation_time = @ + review.evaluation_time,
                                  !.total_retries = @ + review.retry_count]
    IN  [k \in DOMAIN metrics \cup {id} |-> IF k = id THEN new ELSE metrics[k]]

\* a metrics update that leaves total_retries alone
MetricsWithoutRetries(metrics, review, counter) ==
    LET id == review.model_id
        old == IF id \in DOMAIN metrics THEN metrics[id] ELSE NewMetrics
        new == [old EXCEPT ![counter] = @ + 1,
                           !.total_generation_time = @ + review.generation_time,
                           !.total_evaluation_time = @ + review.evaluation_time]
    IN  [k \in DOMAIN metrics \cup {id} |-> IF k = id THEN new ELSE metrics[k]]

\* the metrics update shared by accept_review and reject_review
MetricsWith(metrics, review, counter) ==
    LET id == review.model_id
        old == IF id \in DOMAIN metrics THEN metrics[id] ELSE NewMetrics
        new == [old EXCEPT ![counter] = @ + 1,
                           !.total_generation_time = @ + review.generation_time,
                           !.total_evaluation_time = @ + review.evaluation_time,
                           !.total_retries = @ + review.retry_count]
    IN  [k \in DOMAIN metrics \cup {id} |-> IF k = id THEN new ELSE metrics[k]]

-----------------------------------------------------------------------------
(* The outside world of one run: the API keys in the environment, what a    *)
(* provider.generate call of the drafting stage can do, what the judge call *)
(* can do, and how many attempts the model follows the run for.             *)

GenRaise == [kind |-> "raise", text |-> NoText, padded |-> FALSE]
GenNone == [kind |-> "none", text |-> NoText, padded |-> FALSE]
GenNonText == [kind |-> "nontext", text |-> NoText, padded |-> FALSE]
GenBlank == [kind |-> "blank", text |-> NoText, padded |-> FALSE]
GenText(t, padded) == [kind |-> "text", text |-> t, padded |-> padded]

GenFailures == {GenRaise, GenNone, GenNonText, GenBlank}
GenTexts == {GenText(t, padded) : t \in Texts, padded \in BOOLEAN}

\* review_text.strip() of a response that holds text t
Strip(response) == response.text

Env(keys, gen, judge, attempts, interrupts) ==
    [api_keys |-> keys, gen_outcomes |-> gen, judge_outcomes |-> judge,
     max_attempts |-> attempts, interrupts |-> interrupts]

Run(cfg, target, e) == [config |-> cfg, target_size |-> target, env |-> e]

OnlyRating(r) == [k \in {r} |-> 100]
TwoRatings(r, q) == [k \in {r, q} |-> 50]

DefaultGuardrails(retries) ==
    GuardrailConfig(DefaultVocabThreshold, DefaultSemanticThreshold, retries)

\* thresholds no overlap and no similarity reaches
LenientGuardrails(retries) == GuardrailConfig(101, 101, retries)

\* more attempts than any run of the model makes
Unlimited == (LongTarget + MaxTarget + 1) * (AttemptFactor + 1)

\* short runs in which every stage can go every way
SmallRuns ==
    {Run(DomainConfig(<<GptMini>>, TwoRatings(1, 5), DefaultGuardrails(retries)),
         target,
         Env({"openai"}, GenFailures \cup GenTexts,
             {JudgeSays(ScoreHigh), JudgeSays(ScoreLow)},
             MaxAttempts, retries = 0)) :
        target \in 0..MaxAttempts, retries \in 0..MaxRetries}

\* short runs with several models, one of which has no provider or no API key
ProviderRuns ==
    {Run(DomainConfig(models, OnlyRating(5), DefaultGuardrails(0)),
         MaxAttempts,
         Env(keys, {GenText(t, FALSE) : t \in Texts}, {JudgeSays(ScoreHigh), JudgeRaise},
             MaxAttempts, FALSE)) :
        models \in {<<GptMini, Sonnet>>, <<GptMini, Llama>>, <<Llama, GptMini>>,
                    <<FineTuned>>},
        keys \in {{"openai"}, {"openai", "groq"}}}

\* whole runs of a world that always answers the same way: with rating 1 no
\* draft is ever accepted, with rating 5 the first one is and no later one
SteadyRuns ==
    {Run(DomainConfig(<<GptMini>>, OnlyRating(rating), DefaultGuardrails(retries)),
         target,
         Env({"openai"}, {GenText(1, FALSE)}, {JudgeSays(ScoreHigh)}, Unlimited, FALSE)) :
        rating \in {1, 5}, target \in 1..MaxTarget, retries \in 0..MaxRetries}

\* long runs: every draft accepted at once, and the spec's example of a run
\* of target_size 10 with the default max_retries in which no draft is accepted
LongRuns ==
    {Run(DomainConfig(<<GptMini>>, OnlyRating(5), LenientGuardrails(0)),
         LongTarget,
         Env({"openai"}, {GenText(1, FALSE)}, {JudgeSays(ScoreHigh)}, Unlimited, FALSE)),
     Run(DomainConfig(<<GptMini>>, OnlyRating(1), DefaultGuardrails(DefaultMaxRetries)),
         ExampleTarget,
         Env({"openai"}, {GenText(1, FALSE)}, {JudgeSays(ScoreHigh)}, Unlimited, FALSE))}

Runs == SmallRuns \cup ProviderRuns \cup SteadyRuns \cup LongRuns

-----------------------------------------------------------------------------
(* generate_command: the start *)

Running == [status |-> "running", error |-> "none"]
Exited(error) == [status |-> "exited", error |-> error]
Saved == [status |-> "saved", error |-> "none"]

NothingSaved == [kind |-> "None"]

Init ==
    \E run \in Runs :
        /\ config = run.config
        /\ target_size = run.target_size
        /\ env = run.env
        /\ accepted_reviews = <<>>
        /\ rejected_reviews = <<>>
        /\ metrics_per_model = [id \in {} |-> NewMetrics]
        /\ current_review = InitialReview
        /\ feedback = None
        /\ pc = "sample"
        /\ steps = 0
        /\ drafts = 0
        /\ regens = 0
        /\ prompt = None
        /\ proc = Running
        /\ saved = NothingSaved
        /\ aliased = "none"
        /\ warned = FALSE

\* graph_config["recursion_limit"]
RecursionLimit(target, cfg) ==
    Max(MinRecursionLimit, target * (cfg.guardrails.max_retries + 1) * IterationFactor)

\* graph.invoke is about to run node n
NodeReady(n) ==
    /\ proc.status = "running"
    /\ pc = n
    /\ steps < RecursionLimit(target_size, config)

Finalized == Len(accepted_reviews) + Len(rejected_reviews)

Frame(names) ==
    /\ IF "accepted_reviews" \in names THEN TRUE ELSE UNCHANGED accepted_reviews
    /\ IF "rejected_reviews" \in names THEN TRUE ELSE UNCHANGED rejected_reviews
    /\ IF "metrics_per_model" \in names THEN TRUE ELSE UNCHANGED metrics_per_model
    /\ IF "current_review" \in names THEN TRUE ELSE UNCHANGED current_review
    /\ IF "feedback" \in names THEN TRUE ELSE UNCHANGED feedback
    /\ IF "drafts" \in names THEN TRUE ELSE UNCHANGED <<drafts, regens, prompt>>
    /\ IF "proc" \in names THEN TRUE ELSE UNCHANGED proc
    /\ IF "warned" \in names THEN TRUE ELSE UNCHANGED warned
    /\ IF "aliased" \in names THEN TRUE ELSE UNCHANGED aliased
    /\ UNCHANGED <<config, target_size, env, saved>>

\* a node ran and the graph moves to node next
Goto(next) ==
    /\ pc' = next
    /\ steps' = steps + 1

-----------------------------------------------------------------------------
(* The nodes *)

\* a sampling step that hands the quality_scores dict of the last attempt on
KeptScores(owner) == owner

\* sample builds current_review with a quality_scores dict of its own
FreshScores(owner) == "none"

\* a sampling step that leaves state["feedback"] as it finds it
KeptFeedback(pending) == pending

\* state["feedback"] = None
ClearedFeedback(pending) == None

\* an entry point that tests the finish conditions before it samples
finish_before_sampling ==
    /\ NodeReady("sample")
    /\ should_continue(accepted_reviews, rejected_reviews, target_size) = "finish"
    /\ Goto("END")
    /\ Frame({})

sample_persona_and_rating ==
    /\ NodeReady("sample")
    /\ Finalized < env.max_attempts
    /\ \E p \in 1..Len(config.personas),
          rating \in {r \in DOMAIN config.rating_distribution :
                        config.rating_distribution[r] > 0},
          m \in 1..Len(config.models) :
            current_review' =
                FreshReview([name |-> config.personas[p].name,
                             tone |-> config.personas[p].tone,
                             expectations |-> config.personas[p].expectations],
                            rating, ModelId(config.models[m]))
    /\ feedback' = ClearedFeedback(feedback)
    /\ aliased' = FreshScores(aliased)
    /\ drafts' = 0
    /\ regens' = 0
    /\ prompt' = None
    /\ Goto("generate")
    /\ Frame({"current_review", "feedback", "drafts", "aliased"})

\* the review generate_review stores for what provider.generate did
Generated(review, outcome) ==
    CASE outcome.kind = "text" ->
            [review EXCEPT !.review_text = Strip(outcome), !.generation_time = Tick]
      [] outcome.kind = "none" ->
            [review EXCEPT !.review_text = NoText, !.generation_time = Tick,
                           !.rejection_reason = GenerationError("None response from model"),
                           !.is_valid = FALSE]
      [] outcome.kind = "nontext" ->
            [review EXCEPT !.review_text = NoText, !.generation_time = Tick,
                           !.rejection_reason =
                                GenerationError("Invalid response type from model"),
                           !.is_valid = FALSE]
      [] outcome.kind = "blank" ->
            [review EXCEPT !.review_text = NoText, !.generation_time = Tick,
                           !.rejection_reason =
                                GenerationError("Empty or whitespace-only response from model"),
                           !.is_valid = FALSE]
      [] outcome.kind = "raise" ->
            [review EXCEPT !.review_text = NoText, !.generation_time = Tick,
                           !.rejection_reason = GenerationError("str(e)"),
                           !.is_valid = FALSE]

\* generate_review raises before its try block: no model config, or no provider
GenerateRaises(review, cfg, keys) ==
    \/ MatchingModels(cfg, review.model_id) = {}
    \/ CreateProviderRaises(cfg.models[Least(MatchingModels(cfg, review.model_id))], keys)

\* a drafting stage that lets the exception of provider.generate through
PropagatesProviderErrors(review, cfg, keys, outcome) ==
    GenerateRaises(review, cfg, keys) \/ outcome.kind = "raise"

\* an exception leaves generate_review: only one raised before the try block does,
\* whatever provider.generate does inside it is caught
Propagates(review, cfg, keys, outcome) == GenerateRaises(review, cfg, keys)

\* the model and the build_prompt arguments of one draft
Prompt(review, pending) ==
    [kind |-> "prompt",
     model_id |-> review.model_id,
     persona |-> review.persona,
     rating |-> review.rating,
     feedback |-> pending]

generate_review ==
    /\ NodeReady("generate")
    /\ \E outcome \in env.gen_outcomes :
            IF Propagates(current_review, config, env.api_keys, outcome)
            THEN /\ proc' = Exited("ValueError")
                 /\ UNCHANGED <<pc, steps>>
                 /\ Frame({"proc"})
            ELSE /\ current_review' = Generated(current_review, outcome)
                 /\ drafts' = drafts + 1
                 /\ prompt' = Prompt(current_review, feedback)
                 /\ UNCHANGED regens
                 /\ Goto("diversity_check")
                 /\ Frame({"current_review", "drafts"})

\* review["quality_scores"][g] = scores; review["evaluation_time"] += elapsed
Scored(review, g, scores) ==
    [review EXCEPT !.quality_scores[g] = scores, !.evaluation_time = @ + Tick]

\* a store that keeps current_review itself, so that every scorer write lands
\* in the last stored entry
StoredScoredByReference(list, shares, g, scores) ==
    IF list /= <<>>
    THEN [list EXCEPT ![Len(list)].quality_scores[g] = scores]
    ELSE list

\* the stored list after review["quality_scores"][g] = scores: the write lands
\* in its last entry too when that entry holds the same quality_scores dict
StoredScored(list, shares, g, scores) ==
    IF shares /\ list /= <<>>
    THEN [list EXCEPT ![Len(list)].quality_scores[g] = scores]
    ELSE list

\* a scorer wrote scores under g
Scores(g, scores) ==
    /\ current_review' = Scored(current_review, g, scores)
    /\ accepted_reviews' = StoredScored(accepted_reviews, aliased = "accepted", g, scores)
    /\ rejected_reviews' = StoredScored(rejected_reviews, aliased = "rejected", g, scores)
    /\ Frame({"current_review", "accepted_reviews", "rejected_reviews"})

check_diversity ==
    /\ NodeReady("diversity_check")
    /\ Scores("diversity", DiversityScores(current_review, accepted_reviews, config))
    /\ Goto("bias_check")

check_bias ==
    /\ NodeReady("bias_check")
    /\ Scores("bias", BiasScores(current_review, accepted_reviews, config))
    /\ Goto("realism_check")

check_realism ==
    /\ NodeReady("realism_check")
    /\ \E judge \in (IF current_review.review_text = NoText THEN {JudgeRaise}
                     ELSE env.judge_outcomes) :
            Scores("realism", RealismScores(current_review, config, env.api_keys, judge))
    /\ Goto("aggregate")

aggregate_guardrails ==
    /\ NodeReady("aggregate")
    /\ current_review' = Aggregated(current_review, config)
    /\ Goto(AggregateEdge(route_after_aggregation(Aggregated(current_review, config), config)))
    /\ Frame({"current_review"})

accept_review ==
    /\ NodeReady("accept")
    /\ accepted_reviews' = Append(accepted_reviews, current_review)
    /\ aliased' = "accepted"
    /\ metrics_per_model' = MetricsWith(metrics_per_model, current_review, "accepted_count")
    /\ warned' = (warned \/ (/\ Len(accepted_reviews') < target_size
                             /\ TooManyAttempts(accepted_reviews', rejected_reviews, target_size)))
    /\ Goto(ContinueEdge(should_continue(accepted_reviews', rejected_reviews, target_size)))
    /\ Frame({"accepted_reviews", "metrics_per_model", "warned", "aliased"})

reject_review ==
    /\ NodeReady("reject")
    /\ rejected_reviews' = Append(rejected_reviews, current_review)
    /\ aliased' = "rejected"
    /\ metrics_per_model' = MetricsWith(metrics_per_model, current_review, "rejected_count")
    /\ warned' = (warned \/ (/\ Len(accepted_reviews) < target_size
                             /\ TooManyAttempts(accepted_reviews, rejected_reviews', target_size)))
    /\ Goto(ContinueEdge(should_continue(accepted_reviews, rejected_reviews', target_size)))
    /\ Frame({"rejected_reviews", "metrics_per_model", "warned", "aliased"})

\* f"Previous attempt failed: {rejection_reason}. Please generate a different review."
Feedback(reason) == [kind |-> "feedback", previous |-> reason]

\* a retry step that asks for one star less than the attempt was sampled with
RegeneratedLoweringRating(review) ==
    [review EXCEPT !.retry_count = @ + 1,
                   !.rating = Max(1, @ - 1),
                   !.quality_scores = EmptyScores,
                   !.is_valid = FALSE,
                   !.rejection_reason = None]

\* a retry step that counts every retry twice
RegeneratedCountingTwice(review) ==
    [review EXCEPT !.retry_count = @ + 2,
                   !.quality_scores = EmptyScores,
                   !.is_valid = FALSE,
                   !.rejection_reason = None]

\* a retry step that starts the evaluation clock of the attempt again
RegeneratedResettingClock(review) ==
    [review EXCEPT !.retry_count = @ + 1,
                   !.quality_scores = EmptyScores,
                   !.is_valid = FALSE,
                   !.rejection_reason = None,
                   !.evaluation_time = 0]

\* a retry step that leaves the score record of the failed draft in place
RegeneratedKeepingScores(review) ==
    [review EXCEPT !.retry_count = @ + 1,
                   !.is_valid = FALSE,
                   !.rejection_reason = None]

\* the review prepare_regeneration leaves in state["current_review"]
Regenerated(review) ==
    [review EXCEPT !.retry_count = @ + 1,
                   !.quality_scores = EmptyScores,
                   !.is_valid = FALSE,
                   !.rejection_reason = None]

prepare_regeneration ==
    /\ NodeReady("prepare_retry")
    /\ current_review' = Regenerated(current_review)
    /\ feedback' = Feedback(current_review.rejection_reason)
    /\ aliased' = "none"
    /\ regens' = regens + 1
    /\ UNCHANGED <<drafts, prompt>>
    /\ Goto("generate")
    /\ Frame({"current_review", "feedback", "drafts", "aliased"})

-----------------------------------------------------------------------------
(* generate_command: how graph.invoke ends *)

\* graph.invoke returns final_state and the results are written
save_results ==
    /\ proc.status = "running"
    /\ pc = "END"
    /\ saved' = [accepted_reviews |-> accepted_reviews,
                 rejected_reviews |-> rejected_reviews,
                 metrics_per_model |-> metrics_per_model]
    /\ proc' = Saved
    /\ UNCHANGED <<accepted_reviews, rejected_reviews, metrics_per_model, current_review,
                   feedback, config, target_size, env, pc, steps, drafts, regens,
                   prompt, aliased, warned>>

\* the graph has nodes left to run when the recursion limit is used up
recursion_limit_reached ==
    /\ proc.status = "running"
    /\ pc /= "END"
    /\ steps >= RecursionLimit(target_size, config)
    /\ proc' = Exited("GraphRecursionError")
    /\ UNCHANGED <<pc, steps>>
    /\ Frame({"proc"})

\* Ctrl-C while graph.invoke runs
keyboard_interrupt ==
    /\ proc.status = "running"
    /\ env.interrupts
    /\ pc /= "END"
    /\ proc' = Exited("KeyboardInterrupt")
    /\ UNCHANGED <<pc, steps>>
    /\ Frame({"proc"})

-----------------------------------------------------------------------------
(* aggregate_guardrails on its own: called on any current_review, as the    *)
(* tests of TestAggregation call it, not only on one the graph produced     *)

PassingScores ==
    [diversity |-> [vocab_overlap |-> <<0, 1>>, semantic_similarity |-> 0, pass |-> TRUE],
     bias |-> [sentiment_rating_aligned |-> TRUE, sentiment_compound |-> 80,
               z_score |-> [dev |-> 0, var |-> 1], pass |-> TRUE],
     realism |-> [realism_score |-> 85, pass |-> TRUE]]

FailingScores ==
    [diversity |-> [vocab_overlap |-> <<1, 2>>, semantic_similarity |-> 90, pass |-> FALSE],
     bias |-> [sentiment_rating_aligned |-> TRUE, sentiment_compound |-> 80,
               z_score |-> [dev |-> 3, var |-> 1], pass |-> FALSE],
     realism |-> [realism_score |-> 40, pass |-> FALSE]]

\* the reviews aggregate_guardrails is called on
AggregateInputs ==
    {[FreshReview([name |-> 1, tone |-> "neutral", expectations |-> <<"quality">>],
                  4, ModelId(GptMini))
        EXCEPT !.review_text = text,
               !.quality_scores = [g \in Guardrails |->
                                     CASE verdict[g] = "pass" -> PassingScores[g]
                                       [] verdict[g] = "fail" -> FailingScores[g]
                                       [] OTHER -> Absent],
               !.is_valid = valid,
               !.rejection_reason = reason,
               !.retry_count = count] :
        text \in {NoText, BlankText} \cup Texts,
        verdict \in [Guardrails -> {"pass", "fail", "missing"}],
        valid \in BOOLEAN,
        reason \in {None, GenerationError("None response from model")},
        count \in 0..MaxRetries}

InitAggregate ==
    /\ config = DomainConfig(<<GptMini>>, OnlyRating(4), DefaultGuardrails(MaxRetries))
    /\ target_size = MaxTarget
    /\ env = Env({"openai"}, GenTexts, {JudgeSays(ScoreHigh)}, MaxAttempts, FALSE)
    /\ accepted_reviews = <<>>
    /\ rejected_reviews = <<>>
    /\ metrics_per_model = [id \in {} |-> NewMetrics]
    /\ current_review \in AggregateInputs
    /\ feedback = None
    /\ pc = "aggregate"
    /\ steps = 0
    /\ drafts = 0
    /\ regens = 0
    /\ prompt = None
    /\ proc = Running
    /\ saved = NothingSaved
    /\ aliased = "none"
    /\ warned = FALSE

NextAggregate == aggregate_guardrails

SpecAggregate == InitAggregate /\ [][NextAggregate]_vars

-----------------------------------------------------------------------------
(* The scorers on their own: called on any draft, rating and accepted       *)
(* corpus, as the tests of TestDiversityGuardrail and TestBiasGuardrail     *)
(* call them, and in any order                                              *)

\* a judge response with nothing numeric in it
NoNumber == <<"n", "o">>

\* a judge response whose number float() cannot read
BadNumber == <<"Score:", " ", "1", ".", "2", ".", "3">>

\* an accepted review with text t
AcceptedOf(t) ==
    [FreshReview([name |-> 1, tone |-> "neutral", expectations |-> <<"quality">>],
                 5, ModelId(GptMini))
        EXCEPT !.review_text = t, !.quality_scores = PassingScores, !.is_valid = TRUE]

\* the accepted corpora the scorers are called with: every corpus of up to
\* MaxCorpus texts, and the next size with one text throughout
Corpora ==
    {[i \in 1..n |-> AcceptedOf(texts[i])] :
        n \in 0..MaxCorpus, texts \in [1..MaxCorpus -> Texts]}
        \cup {[i \in 1..MaxCorpus + 1 |-> AcceptedOf(t)] : t \in Texts}

\* the guardrail thresholds the scorers are called with: the defaults, and
\* the values an overlap, a similarity, a realism score and a z-score can be
\* equal to
ScorerConfigs ==
    {[DomainConfig(<<GptMini>>, OnlyRating(5), GuardrailConfig(limits[1], limits[2], 0))
        EXCEPT !.guardrails.bias.z_score_threshold = z,
               !.guardrails.realism.realism_score_threshold = limits[3]] :
        limits \in {<<DefaultVocabThreshold, DefaultSemanticThreshold,
                      DefaultRealismThreshold>>,
                    <<100, 100, 60>>},
        z \in {0, DefaultZThreshold}}

\* what the judge call does, and the API keys it finds
JudgeWorlds ==
    {<<{"openai"}, judge>> :
        judge \in {JudgeRaise, JudgeEmpty, JudgeSays(<<" ">>), JudgeSays(ScoreHigh),
                   JudgeSays(ScoreLow), JudgeSays(<<"9">>), JudgeSays(NoNumber),
                   JudgeSays(BadNumber)}}
        \cup {<<{}, JudgeSays(ScoreHigh)>>}

InitScorers ==
    /\ config \in ScorerConfigs
    /\ target_size = MaxTarget
    /\ \E world \in JudgeWorlds :
            env = Env(world[1], GenTexts, {world[2]}, MaxAttempts, FALSE)
    /\ accepted_reviews \in Corpora
    /\ rejected_reviews = <<>>
    /\ metrics_per_model = [id \in {} |-> NewMetrics]
    /\ \E text \in {NoText} \cup Texts, rating \in 1..5 :
            current_review =
                [FreshReview([name |-> 1, tone |-> "neutral", expectations |-> <<"quality">>],
                             rating, ModelId(GptMini))
                    EXCEPT !.review_text = text]
    /\ feedback = None
    /\ pc = "score"
    /\ steps = 0
    /\ drafts = 1
    /\ regens = 0
    /\ prompt = None
    /\ proc = Running
    /\ saved = NothingSaved
    /\ aliased = "none"
    /\ warned = FALSE

\* what scorer g writes for current_review
ScoresOf(g, review, judge) ==
    CASE g = "diversity" -> DiversityScores(review, accepted_reviews, config)
      [] g = "bias" -> BiasScores(review, accepted_reviews, config)
      [] g = "realism" -> RealismScores(review, config, env.api_keys, judge)

\* one of the scorers that has not run yet runs
any_scorer ==
    /\ proc.status = "running"
    /\ pc = "score"
    /\ \E g \in Guardrails, judge \in env.judge_outcomes :
            /\ current_review.quality_scores[g] = Absent
            /\ Scores(g, ScoresOf(g, current_review, judge))
            /\ pc' = IF \A h \in Guardrails \ {g} : current_review.quality_scores[h] /= Absent
                     THEN "aggregate" ELSE "score"
            /\ steps' = steps + 1

NextScorers ==
    \/ any_scorer
    \/ aggregate_guardrails

SpecScorers == InitScorers /\ [][NextScorers]_vars

Next ==
    \/ sample_persona_and_rating
    \/ generate_review
    \/ check_diversity
    \/ check_bias
    \/ check_realism
    \/ aggregate_guardrails
    \/ accept_review
    \/ reject_review
    \/ prepare_regeneration
    \/ save_results
    \/ recursion_limit_reached
    \/ keyboard_interrupt

Spec == Init /\ [][Next]_vars

\* the runs that end within the recursion limit whatever the world does
InitWithinLimit == Init /\ target_size <= MaxTarget

\* a run that the recursion limit does not end
NextWithinLimit ==
    \/ sample_persona_and_rating
    \/ generate_review
    \/ check_diversity
    \/ check_bias
    \/ check_realism
    \/ aggregate_guardrails
    \/ accept_review
    \/ reject_review
    \/ prepare_regeneration
    \/ save_results
    \/ keyboard_interrupt

\* workflow.add_node: the nodes of the graph
GraphNodes ==
    {"sample", "generate", "diversity_check", "bias_check", "realism_check",
     "aggregate", "accept", "reject", "prepare_retry"}

\* the node graph.invoke is running returns, and the graph moves on
node_returns ==
    /\ proc.status = "running"
    /\ pc \in GraphNodes
    /\ steps < RecursionLimit(target_size, config)
    /\ pc = "sample" => Finalized < env.max_attempts
    /\ pc' \in (GraphNodes \cup {"END"}) \ {pc}

\* graph.invoke has returned and generate_command saves the results
invoke_returns ==
    /\ proc.status = "running"
    /\ pc = "END"
    /\ proc' = Saved

\* every call returns: graph.invoke runs the next node as soon as the
\* previous one has returned, and generate_command saves as soon as
\* graph.invoke has returned
FairSpec ==
    /\ InitWithinLimit
    /\ [][NextWithinLimit]_vars
    /\ WF_pc(node_returns)
    /\ WF_proc(invoke_returns)

-----------------------------------------------------------------------------
(* The validity rule *)

\* C1: after every aggregation step, and for every attempt stored in
\* accepted_reviews or rejected_reviews, is_valid is true exactly when the
\* draft text is non-empty and the diversity, bias and realism verdicts all pass.
C1_ValidIffTextAndAllVerdicts ==
    LET Rule(review) ==
            review.is_valid <=>
                /\ review.review_text /= NoText
                /\ review.quality_scores.diversity /= Absent
                /\ review.quality_scores.diversity.pass
                /\ review.quality_scores.bias /= Absent
                /\ review.quality_scores.bias.pass
                /\ review.quality_scores.realism /= Absent
                /\ review.quality_scores.realism.pass
    IN  /\ pc \in {"accept", "prepare_retry", "reject"} => Rule(current_review)
        /\ \A i \in 1..Len(accepted_reviews) : Rule(accepted_reviews[i])
        /\ \A i \in 1..Len(rejected_reviews) : Rule(rejected_reviews[i])

\* an attempt is stored as accepted, and a later draft has just been aggregated
\* as invalid although it has text and its realism verdict passes
C1_Witness ==
    /\ Len(accepted_reviews) > 0
    /\ accepted_reviews[1].is_valid
    /\ pc \in {"prepare_retry", "reject"}
    /\ current_review.review_text /= NoText
    /\ current_review.quality_scores.realism.pass
    /\ ~current_review.is_valid

-----------------------------------------------------------------------------
(* Retries *)

\* C2: with max_retries R, an attempt whose drafts are all invalid is drafted
\* exactly R + 1 times, passes through the retry step exactly R times and is
\* then rejected with retry_count = R: it is never rejected while
\* retry_count < R and never drafted R + 2 times.
C2_RejectedAfterAllRetries ==
    LET R == config.guardrails.max_retries
    IN  /\ drafts <= R + 1
        /\ regens <= R
        /\ pc = "reject" =>
                /\ drafts = R + 1
                /\ regens = R
                /\ current_review.retry_count = R
        /\ \A i \in 1..Len(rejected_reviews) : rejected_reviews[i].retry_count = R

\* an attempt is about to be rejected after its third draft, with max_retries 2
C2_Witness ==
    /\ pc = "reject"
    /\ config.guardrails.max_retries = 2
    /\ drafts = 3
    /\ regens = 2

\* C3: retry_count stays between 0 and max_retries throughout; the retry step
\* is taken only when retry_count < max_retries and it raises retry_count by
\* exactly 1.
C3_RetryCountBounded ==
    /\ [](/\ 0 <= current_review.retry_count
          /\ current_review.retry_count <= config.guardrails.max_retries)
    /\ [][(pc = "prepare_retry" /\ steps' = steps + 1) =>
            /\ current_review.retry_count < config.guardrails.max_retries
            /\ current_review'.retry_count = current_review.retry_count + 1]_vars

\* the last retry a run with max_retries 2 allows has been taken
C3_Witness ==
    /\ pc = "generate"
    /\ regens = 2
    /\ current_review.retry_count = 2
    /\ config.guardrails.max_retries = 2

-----------------------------------------------------------------------------
(* Routing *)

\* C4: the continuation check happens after an accept or reject step and at
\* no other point: the run finishes if accepted >= target_size or
\* accepted + rejected > 10 x target_size, and samples the next attempt
\* otherwise. After aggregation the route is accept iff is_valid, retry iff
\* invalid and retry_count < max_retries, reject iff invalid and
\* retry_count >= max_retries.
C4_RoutesFollowTheChecks ==
    [][/\ (pc \in {"accept", "reject"} /\ steps' = steps + 1) =>
            pc' = IF \/ Len(accepted_reviews') >= target_size
                     \/ Len(accepted_reviews') + Len(rejected_reviews') > 10 * target_size
                  THEN "END"
                  ELSE "sample"
       /\ (pc' /= pc /\ pc' \in {"END", "sample"}) => pc \in {"accept", "reject"}
       /\ (pc = "aggregate" /\ steps' = steps + 1) =>
            pc' = IF current_review'.is_valid THEN "accept"
                  ELSE IF current_review'.retry_count < config.guardrails.max_retries
                       THEN "prepare_retry"
                       ELSE "reject"]_vars

\* a run that finished short of its target, and one step before the safety
\* stop would have fired the run sampled again
C4_Witness ==
    /\ pc = "END"
    /\ target_size > 0
    /\ Len(accepted_reviews) < target_size
    /\ Len(accepted_reviews) + Len(rejected_reviews) = 10 * target_size + 1

-----------------------------------------------------------------------------
(* How a run ends *)

\* C5: a run that does not reach target_size acceptances finishes through the
\* safety stop as soon as accepted + rejected exceeds 10 x target_size (for
\* target_size 10, more than 100 finalized attempts): a normal finish with a
\* warning and the accepted and rejected lists handed back, not an error.
C5_ShortRunEndsThroughSafetyStop ==
    (/\ proc.status /= "running"
     /\ proc.error \notin {"KeyboardInterrupt", "ValueError"}
     /\ rejected_reviews /= <<>>
     /\ Len(accepted_reviews) < target_size) =>
        /\ proc = Saved
        /\ warned
        /\ Len(accepted_reviews) + Len(rejected_reviews) = 10 * target_size + 1
        /\ saved = [accepted_reviews |-> accepted_reviews,
                    rejected_reviews |-> rejected_reviews,
                    metrics_per_model |-> metrics_per_model]

\* C6: whatever ends the run (the target reached, the safety stop, or the
\* step limit), the accepted and rejected lists collected so far are handed
\* back; at the step limit as partial results.
C6_ListsReturnedHoweverTheRunEnds ==
    (proc = Saved \/ proc = Exited("GraphRecursionError")) =>
        saved = [accepted_reviews |-> accepted_reviews,
                 rejected_reviews |-> rejected_reviews,
                 metrics_per_model |-> metrics_per_model]

\* C7: the step budget max(1000, target_size x (max_retries + 1) x 5) covers
\* a run in which every one of the target_size attempts is accepted within
\* max_retries + 1 drafts, for every target_size >= 1 and max_retries >= 0.
C7_BudgetCoversAcceptedAttempts ==
    (rejected_reviews = <<>> /\ target_size >= 1) =>
        proc /= Exited("GraphRecursionError")

\* C8: the fatal configuration error of the drafting stage (no model
\* configuration for the model id, or no provider for it) never happens after
\* an earlier attempt was accepted or rejected.
C8_ConfigErrorOnlyBeforeFirstAttempt ==
    proc = Exited("ValueError") =>
        Len(accepted_reviews) + Len(rejected_reviews) = 0

\* C9: a failure of the generation call (an exception, a null, non-text or
\* blank response) never aborts the run: the attempt becomes invalid with a
\* null draft text, and after aggregation it is retried if
\* retry_count < max_retries and rejected otherwise, after which the run goes on.
C9_GenerationFailureNeverAborts ==
    LET failed == current_review.review_text = NoText
        R == config.guardrails.max_retries
    IN  /\ proc = Exited("ValueError") =>
                GenerateRaises(current_review, config, env.api_keys)
        /\ (pc = "diversity_check" /\ current_review.rejection_reason /= None) =>
                failed /\ ~current_review.is_valid
        /\ (pc \in {"diversity_check", "bias_check", "realism_check", "aggregate"}
            /\ failed) => ~current_review.is_valid
        /\ pc = "accept" => ~failed
        /\ (pc = "prepare_retry" /\ failed) =>
                ~current_review.is_valid /\ current_review.retry_count < R
        /\ (pc = "reject" /\ failed) =>
                ~current_review.is_valid /\ current_review.retry_count >= R

\* an attempt whose generation calls all failed was retried twice and rejected,
\* and the run is drafting the next attempt
C9_Witness ==
    /\ proc = Running
    /\ pc = "diversity_check"
    /\ Len(rejected_reviews) > 0
    /\ rejected_reviews[1].review_text = NoText
    /\ rejected_reviews[1].retry_count = 2

\* C10: an external interrupt aborts the run, and the accepted and rejected
\* lists accumulated up to it are handed back to the caller.
C10_InterruptHandsBackTheLists ==
    (proc = Exited("KeyboardInterrupt")
     /\ Len(accepted_reviews) + Len(rejected_reviews) > 0) =>
        saved = [accepted_reviews |-> accepted_reviews,
                 rejected_reviews |-> rejected_reviews,
                 metrics_per_model |-> metrics_per_model]

-----------------------------------------------------------------------------
(* Failed drafts *)

\* C11: when drafting fails, the controller goes from drafting directly to
\* aggregation: no scorer is executed for that draft and no guardrail score
\* record is written for it.
C11_FailedDraftSkipsScoring ==
    current_review.review_text = NoText =>
        /\ pc \notin {"diversity_check", "bias_check", "realism_check"}
        /\ pc = "aggregate" => current_review.quality_scores = EmptyScores

\* C11 as the code has it: a failed draft still passes through the three
\* scorers in order, each of which records its fixed failing scores for a
\* missing text (diversity 1.0 / 1.0, bias not aligned with z 0.0, realism
\* 0.0), before aggregation; a rejected attempt without text keeps them.
C11_FailedDraftGetsFailingScores ==
    LET NoDiversity == [vocab_overlap |-> <<1, 1>>, semantic_similarity |-> 100,
                        pass |-> FALSE]
        NoBias == [sentiment_rating_aligned |-> FALSE,
                   z_score |-> [dev |-> 0, var |-> 1], pass |-> FALSE]
        NoRealism == [realism_score |-> 0, pass |-> FALSE]
        Failing(scores) ==
            /\ scores.diversity = NoDiversity
            /\ scores.bias = NoBias
            /\ scores.realism = NoRealism
    IN  /\ (current_review.review_text = NoText /\ pc = "bias_check") =>
                current_review.quality_scores =
                    [EmptyScores EXCEPT !.diversity = NoDiversity]
        /\ (current_review.review_text = NoText /\ pc = "realism_check") =>
                current_review.quality_scores =
                    [EmptyScores EXCEPT !.diversity = NoDiversity, !.bias = NoBias]
        /\ (current_review.review_text = NoText
            /\ pc \in {"aggregate", "prepare_retry", "reject"}) =>
                Failing(current_review.quality_scores)
        /\ \A i \in 1..Len(rejected_reviews) :
                rejected_reviews[i].review_text = NoText =>
                    Failing(rejected_reviews[i].quality_scores)

\* a draft that failed has been through the three scorers
C11_Witness ==
    /\ pc = "aggregate"
    /\ current_review.review_text = NoText
    /\ current_review.rejection_reason /= None
    /\ current_review.quality_scores.realism /= Absent

\* C12: if the draft text is null, empty or blank at aggregation, the attempt
\* is set invalid with the fixed reason 'Generation error: Empty or invalid
\* review text', whatever the recorded guardrail verdicts are (even if all
\* three say pass) and whatever reason the drafting stage had stored.
C12_EmptyTextShortCircuit ==
    (pc /= "aggregate" /\ current_review.review_text \in {NoText, BlankText}) =>
        /\ ~current_review.is_valid
        /\ current_review.rejection_reason =
                [kind |-> "str",
                 parts |-> <<[failed |-> "Generation",
                              shown |-> <<"Empty or invalid review text">>]>>]
        /\ pc \in {"prepare_retry", "reject"}

\* a blank draft whose three recorded verdicts all pass has been aggregated
C12_Witness ==
    /\ pc /= "aggregate"
    /\ current_review.review_text = BlankText
    /\ current_review.quality_scores = PassingScores
    /\ ~current_review.is_valid

-----------------------------------------------------------------------------
(* Rejection reasons *)

\* C13: for every invalid attempt after aggregation, rejection_reason is
\* non-null and mentions exactly the guardrails whose recorded verdict is
\* fail, no others, in the fixed order diversity, bias, realism, joined
\* with '; '.
C13_ReasonNamesFailedGuardrails ==
    LET Failed(review) ==
            (IF review.quality_scores.diversity.pass THEN <<>> ELSE <<"Diversity">>)
            \o (IF review.quality_scores.bias.pass THEN <<>> ELSE <<"Bias">>)
            \o (IF review.quality_scores.realism.pass THEN <<>> ELSE <<"Realism">>)
        Named(reason) == [i \in 1..Len(reason.parts) |-> reason.parts[i].failed]
        Rule(review) ==
            ~review.is_valid =>
                /\ review.rejection_reason /= None
                /\ Named(review.rejection_reason) = Failed(review)
    IN  /\ pc \in {"accept", "prepare_retry", "reject"} => Rule(current_review)
        /\ \A i \in 1..Len(rejected_reviews) : Rule(rejected_reviews[i])

\* C13 as the code has it: an invalid attempt with a draft text has a reason
\* that names exactly its failed guardrails in the order diversity, bias,
\* realism; an invalid attempt without draft text has the one generation
\* error reason, which names no guardrail, although its three recorded
\* verdicts are fail.
C13_ReasonNamesFailedGuardrailsOfDraft ==
    LET Failed(review) ==
            (IF review.quality_scores.diversity.pass THEN <<>> ELSE <<"Diversity">>)
            \o (IF review.quality_scores.bias.pass THEN <<>> ELSE <<"Bias">>)
            \o (IF review.quality_scores.realism.pass THEN <<>> ELSE <<"Realism">>)
        Named(reason) == [i \in 1..Len(reason.parts) |-> reason.parts[i].failed]
        Rule(review) ==
            ~review.is_valid =>
                /\ review.rejection_reason /= None
                /\ Named(review.rejection_reason) =
                        IF review.review_text = NoText THEN <<"Generation">>
                        ELSE Failed(review)
                /\ review.review_text = NoText =>
                        Failed(review) = <<"Diversity", "Bias", "Realism">>
    IN  /\ pc \in {"accept", "prepare_retry", "reject"} => Rule(current_review)
        /\ \A i \in 1..Len(rejected_reviews) : Rule(rejected_reviews[i])

\* a draft with text failed the diversity and the bias check, not the realism check
C13_Witness ==
    /\ pc \in {"prepare_retry", "reject"}
    /\ current_review.review_text /= NoText
    /\ ~current_review.quality_scores.diversity.pass
    /\ ~current_review.quality_scores.bias.pass
    /\ current_review.quality_scores.realism.pass
    /\ Len(current_review.rejection_reason.parts) = 2

\* C14: in every reachable state, every attempt (the one in flight and every
\* finalized one) has rejection_reason non-null if and only if is_valid is
\* false.
C14_ReasonIffInvalid ==
    /\ steps > 0 => (current_review.rejection_reason /= None <=> ~current_review.is_valid)
    /\ \A i \in 1..Len(accepted_reviews) :
            accepted_reviews[i].rejection_reason /= None <=> ~accepted_reviews[i].is_valid
    /\ \A i \in 1..Len(rejected_reviews) :
            rejected_reviews[i].rejection_reason /= None <=> ~rejected_reviews[i].is_valid

\* C14 as the code has it: from its aggregation on, and once finalized, an
\* attempt has rejection_reason non-null iff is_valid is false; a valid
\* attempt never has a reason; between sampling or a retry step and the next
\* aggregation the attempt in flight is invalid and its reason is null
\* unless the drafting of that draft failed.
C14_ReasonIffInvalidOnceAggregated ==
    /\ (steps > 0 /\ pc \in {"accept", "prepare_retry", "reject", "sample", "END"}) =>
            (current_review.rejection_reason /= None <=> ~current_review.is_valid)
    /\ current_review.is_valid => current_review.rejection_reason = None
    /\ pc = "generate" =>
            ~current_review.is_valid /\ current_review.rejection_reason = None
    /\ pc \in {"diversity_check", "bias_check", "realism_check", "aggregate"} =>
            /\ ~current_review.is_valid
            /\ current_review.rejection_reason /= None
                    <=> current_review.review_text = NoText
    /\ \A i \in 1..Len(accepted_reviews) :
            accepted_reviews[i].rejection_reason /= None <=> ~accepted_reviews[i].is_valid
    /\ \A i \in 1..Len(rejected_reviews) :
            rejected_reviews[i].rejection_reason /= None <=> ~rejected_reviews[i].is_valid

\* with an accepted and a rejected attempt stored, a draft with text waits
\* for its aggregation: invalid, and without a reason
C14_Witness ==
    /\ Len(accepted_reviews) > 0
    /\ Len(rejected_reviews) > 0
    /\ rejected_reviews[1].review_text /= NoText
    /\ pc = "aggregate"
    /\ current_review.review_text /= NoText
    /\ ~current_review.is_valid
    /\ current_review.rejection_reason = None

-----------------------------------------------------------------------------
(* Metrics *)

\* C15: in every reachable state, for every model identifier m: the metrics
\* entry of m exists iff at least one attempt of m has been finalized, its
\* accepted_count is the number of accepted-list entries with model m, its
\* rejected_count the number of rejected-list entries with model m, and its
\* total_retries the sum of retry_count over those finalized attempts; an
\* accepting step increases accepted_count of exactly that attempt's model
\* by 1 (from absent to 1 on the first acceptance).
C15_MetricsMatchTheLists ==
    /\ [](LET Ids == {<<config.models[i].provider, ":">> \o config.models[i].model :
                        i \in 1..Len(config.models)}
              Of(list, m) == SelectSeq(list, LAMBDA r : r.model_id = m)
              Retries(list) == SumSeq([i \in 1..Len(list) |-> list[i].retry_count])
          IN  /\ DOMAIN metrics_per_model \subseteq Ids
              /\ \A m \in Ids :
                    /\ m \in DOMAIN metrics_per_model <=>
                            Len(Of(accepted_reviews, m)) + Len(Of(rejected_reviews, m)) > 0
                    /\ m \in DOMAIN metrics_per_model =>
                        /\ metrics_per_model[m].accepted_count = Len(Of(accepted_reviews, m))
                        /\ metrics_per_model[m].rejected_count = Len(Of(rejected_reviews, m))
                        /\ metrics_per_model[m].total_retries =
                                Retries(Of(accepted_reviews, m))
                                    + Retries(Of(rejected_reviews, m)))
    /\ [][LET Count(metrics, m) ==
                IF m \in DOMAIN metrics THEN metrics[m].accepted_count ELSE 0
          IN  (pc = "accept" /\ steps' = steps + 1) =>
                \A m \in DOMAIN metrics_per_model' :
                    Count(metrics_per_model', m) =
                        Count(metrics_per_model, m)
                            + (IF m = current_review.model_id THEN 1 ELSE 0)]_vars

\* two models have metrics: one has an accepted attempt, the other a
\* rejected one
C15_Witness ==
    \E m, n \in DOMAIN metrics_per_model :
        /\ m /= n
        /\ metrics_per_model[m].accepted_count = 1
        /\ metrics_per_model[n].rejected_count = 1

\* C16: once a model's metrics entry exists it is never removed or reset:
\* across every step, each of its counters (accepted_count, rejected_count,
\* total_retries, summed generation and evaluation time) is non-decreasing.
C16_MetricsOnlyGrow ==
    [][\A m \in DOMAIN metrics_per_model :
            /\ m \in DOMAIN metrics_per_model'
            /\ metrics_per_model'[m].accepted_count >= metrics_per_model[m].accepted_count
            /\ metrics_per_model'[m].rejected_count >= metrics_per_model[m].rejected_count
            /\ metrics_per_model'[m].total_retries >= metrics_per_model[m].total_retries
            /\ metrics_per_model'[m].total_generation_time
                    >= metrics_per_model[m].total_generation_time
            /\ metrics_per_model'[m].total_evaluation_time
                    >= metrics_per_model[m].total_evaluation_time]_vars

\* the entry of one model has been updated by an acceptance and, after
\* retries, by a rejection
C16_Witness ==
    \E m \in DOMAIN metrics_per_model :
        /\ metrics_per_model[m].accepted_count >= 1
        /\ metrics_per_model[m].rejected_count >= 1
        /\ metrics_per_model[m].total_retries >= 1

\* C17: the accepted and the rejected list are append-only: every step leaves
\* the entries already stored where they are and as they are, score record
\* included, and adds at most one entry, at the end.
C17_StoredAttemptsNeverChange ==
    [][/\ Len(accepted_reviews') \in {Len(accepted_reviews), Len(accepted_reviews) + 1}
       /\ Len(rejected_reviews') \in {Len(rejected_reviews), Len(rejected_reviews) + 1}
       /\ SubSeq(accepted_reviews', 1, Len(accepted_reviews)) = accepted_reviews
       /\ SubSeq(rejected_reviews', 1, Len(rejected_reviews)) = rejected_reviews
       /\ (pc = "accept" /\ steps' = steps + 1) =>
                accepted_reviews'[Len(accepted_reviews')] = current_review
       /\ (pc = "reject" /\ steps' = steps + 1) =>
                rejected_reviews'[Len(rejected_reviews')] = current_review]_vars

\* the scorers have all written the score record of a later attempt while an
\* accepted attempt sits in the list
C17_Witness ==
    /\ accepted_reviews /= <<>>
    /\ pc = "aggregate"
    /\ current_review.quality_scores /= accepted_reviews[Len(accepted_reviews)].quality_scores

\* C18: the accepted list changes only in the accept step, the rejected list
\* only in the reject step, and the metrics only in those two steps; sampling,
\* drafting, the three scorers, aggregation and the retry step leave all three
\* unchanged.
C18_OnlyFinalizationWritesTheResults ==
    [][/\ accepted_reviews' /= accepted_reviews => (pc = "accept" /\ steps' = steps + 1)
       /\ rejected_reviews' /= rejected_reviews => (pc = "reject" /\ steps' = steps + 1)
       /\ metrics_per_model' /= metrics_per_model =>
                (pc \in {"accept", "reject"} /\ steps' = steps + 1)
       /\ pc \in {"sample", "generate", "diversity_check", "bias_check",
                  "realism_check", "aggregate", "prepare_retry"} =>
                UNCHANGED <<accepted_reviews, rejected_reviews, metrics_per_model>>]_vars

\* a retried draft has been scored and aggregated while both lists and the
\* metrics hold earlier attempts
C18_Witness ==
    /\ accepted_reviews /= <<>>
    /\ rejected_reviews /= <<>>
    /\ DOMAIN metrics_per_model /= {}
    /\ regens >= 1
    /\ pc \in {"accept", "reject", "prepare_retry"}

\* C19: persona, target rating and model identifier of an attempt are chosen
\* only by the sampling step: every other step leaves them unchanged, and each
\* draft of an attempt is asked with the persona, rating and model of the
\* draft before it.
C19_OnlySamplingChoosesTheAttempt ==
    [][/\ pc /= "sample" =>
            /\ current_review'.persona = current_review.persona
            /\ current_review'.rating = current_review.rating
            /\ current_review'.model_id = current_review.model_id
       /\ (prompt /= None /\ prompt' /= None) =>
            /\ prompt'.persona = prompt.persona
            /\ prompt'.rating = prompt.rating
            /\ prompt'.model_id = prompt.model_id
       /\ prompt' /= None =>
            /\ prompt'.persona = current_review'.persona
            /\ prompt'.rating = current_review'.rating
            /\ prompt'.model_id = current_review'.model_id]_vars

\* the second retry draft of an attempt has been generated, in a run that
\* has a choice of ratings or models
C19_Witness ==
    /\ drafts = 3
    /\ regens = 2
    /\ prompt /= None
    /\ pc = "diversity_check"
    /\ \/ Len(config.models) > 1
       \/ Cardinality({r \in DOMAIN config.rating_distribution :
                            config.rating_distribution[r] > 0}) > 1

\* C20: feedback is pending only during a retry. The first draft of every
\* attempt is asked with no feedback, sampling having cleared it; every retry
\* draft is asked with 'Previous attempt failed: {reason}. Please generate a
\* different review.', the reason being the one the aggregation just before the
\* retry step set; the retry step also clears score record, validity and reason.
C20_FeedbackOnlyOnRetries ==
    /\ [](/\ feedback /= None => current_review.retry_count >= 1
          /\ (pc = "generate" /\ current_review.retry_count = 0) => feedback = None
          /\ (prompt /= None /\ drafts = 1) => prompt.feedback = None
          /\ (prompt /= None /\ drafts > 1) => prompt.feedback /= None)
    /\ [][/\ (pc = "sample" /\ steps' = steps + 1) => feedback' = None
          /\ (pc = "generate" /\ steps' = steps + 1) =>
                /\ prompt'.feedback = feedback
                /\ feedback' = feedback
          /\ (pc = "aggregate" /\ pc' = "prepare_retry") =>
                /\ current_review'.rejection_reason /= None
                /\ current_review'.rejection_reason
                        = Aggregated(current_review, config).rejection_reason
          /\ (pc = "prepare_retry" /\ steps' = steps + 1) =>
                /\ feedback' = Feedback(current_review.rejection_reason)
                /\ current_review.rejection_reason /= None
                /\ current_review'.quality_scores = EmptyScores
                /\ ~current_review'.is_valid
                /\ current_review'.rejection_reason = None
          /\ feedback' /= feedback => pc \in {"sample", "prepare_retry"}]_vars

\* an attempt that ended after retries has been followed by a fresh attempt,
\* whose first draft has been asked for, then retried and asked for again
C20_Witness ==
    /\ Finalized >= 1
    /\ \E i \in 1..Len(rejected_reviews) : rejected_reviews[i].retry_count >= 1
    /\ drafts = 2
    /\ regens = 1
    /\ prompt /= None
    /\ prompt.feedback /= None

-----------------------------------------------------------------------------
(* Order of the stages *)

\* C21: attempts are processed one at a time. A new attempt is sampled only
\* once the previous one sits at the end of the accepted or of the rejected
\* list; each draft is generated, then scored by diversity, bias and realism,
\* then aggregated, then routed; the attempt in flight is in no list, and the
\* accepted list the scorers read holds every attempt accepted so far.
C21_OneAttemptAtATime ==
    LET scores == current_review.quality_scores
        Has(g) == scores[g] /= Absent
        Last(list) == list[Len(list)]
        AcceptedSoFar ==
            SumSeq([i \in 1..Len(config.models) |->
                        IF ModelId(config.models[i]) \in DOMAIN metrics_per_model
                        THEN metrics_per_model[ModelId(config.models[i])].accepted_count
                        ELSE 0])
    IN  /\ pc \in {"sample", "generate", "diversity_check", "bias_check", "realism_check",
                   "aggregate", "accept", "reject", "prepare_retry", "END"}
        /\ pc = "sample" =>
                \/ steps = 0
                \/ aliased = "accepted" /\ Last(accepted_reviews) = current_review
                \/ aliased = "rejected" /\ Last(rejected_reviews) = current_review
        /\ pc = "generate" => (drafts = regens /\ scores = EmptyScores)
        /\ pc = "diversity_check" => (drafts = regens + 1 /\ scores = EmptyScores)
        /\ pc = "bias_check" => (Has("diversity") /\ ~Has("bias") /\ ~Has("realism"))
        /\ pc = "realism_check" => (Has("diversity") /\ Has("bias") /\ ~Has("realism"))
        /\ pc \in {"aggregate", "accept", "reject", "prepare_retry"} =>
                (Has("diversity") /\ Has("bias") /\ Has("realism"))
        /\ pc \in {"accept", "reject", "prepare_retry"} =>
                current_review = Aggregated(current_review, config)
        /\ pc \in {"generate", "diversity_check", "bias_check", "realism_check",
                   "aggregate", "accept", "reject", "prepare_retry"} =>
                /\ aliased = "none"
                /\ drafts <= regens + 1
                /\ regens = current_review.retry_count
                /\ Len(accepted_reviews) = AcceptedSoFar

\* the scorers are about to score the retried draft of a second attempt, an
\* accepted attempt being in the corpus
C21_Witness ==
    /\ pc = "diversity_check"
    /\ accepted_reviews /= <<>>
    /\ regens >= 1
    /\ drafts = regens + 1

-----------------------------------------------------------------------------
(* The scorers *)

\* C22: the three scorers are order-independent: whichever of them have run,
\* in whatever order, each has written what it writes when the scorers run
\* in the order of the graph, the evaluation time is the sum of their times,
\* and the aggregation of the three gives the same review.
C22_ScorersCommute ==
    LET judge == CHOOSE j \in env.judge_outcomes : TRUE
        start == [current_review EXCEPT !.quality_scores = EmptyScores,
                                        !.evaluation_time = 0,
                                        !.is_valid = FALSE,
                                        !.rejection_reason = None]
        d == Scored(start, "diversity", ScoresOf("diversity", start, judge))
        b == Scored(d, "bias", ScoresOf("bias", d, judge))
        r == Scored(b, "realism", ScoresOf("realism", b, judge))
        ran == {g \in Guardrails : current_review.quality_scores[g] /= Absent}
    IN  /\ pc \in {"score", "aggregate"} =>
            /\ \A g \in ran : current_review.quality_scores[g] = r.quality_scores[g]
            /\ current_review.evaluation_time = Cardinality(ran) * Tick
            /\ Cardinality(ran) = steps
        /\ pc = "aggregate" => current_review = r
        /\ pc \in {"accept", "reject", "prepare_retry"} =>
            current_review = Aggregated(r, config)

\* bias and realism have run before diversity on a draft that is scored
\* against a corpus, and realism was judged
C22_Witness ==
    /\ pc = "score"
    /\ steps = 2
    /\ current_review.quality_scores.diversity = Absent
    /\ current_review.review_text /= NoText
    /\ accepted_reviews /= <<>>
    /\ env.judge_outcomes = {JudgeSays(ScoreHigh)}
    /\ env.api_keys = {"openai"}

\* C23: with an empty accepted corpus every non-empty draft passes the
\* diversity scorer with overlap 0.0 and similarity 0.0, and the bias scorer
\* gives it z = 0.0, which meets the z-score half of the bias pass condition
\* whatever the threshold and the sentiment: bias passes iff the sentiment is
\* aligned with the rating.
C23_EmptyCorpusBootstrap ==
    LET scores == current_review.quality_scores
    IN  (accepted_reviews = <<>> /\ current_review.review_text /= NoText) =>
            /\ scores.diversity /= Absent =>
                    scores.diversity = [vocab_overlap |-> <<0, 1>>,
                                        semantic_similarity |-> 0,
                                        pass |-> TRUE]
            /\ scores.bias /= Absent =>
                    /\ scores.bias.z_score.dev = 0
                    /\ scores.bias.pass = scores.bias.sentiment_rating_aligned
                    /\ scores.bias.sentiment_rating_aligned =
                            SentimentAligned(current_review.rating,
                                             Compound(current_review.review_text))

\* diversity and bias have scored a draft against an empty corpus under a
\* z-score threshold of 0, and bias passed
C23_Witness ==
    /\ accepted_reviews = <<>>
    /\ current_review.review_text /= NoText
    /\ config.guardrails.bias.z_score_threshold = 0
    /\ current_review.quality_scores.diversity /= Absent
    /\ current_review.quality_scores.bias /= Absent
    /\ current_review.quality_scores.bias.pass

\* C24: with a non-empty accepted corpus the diversity scorer passes a draft
\* iff its vocabulary overlap is strictly below the vocab-overlap threshold
\* and its semantic similarity strictly below the semantic-similarity
\* threshold, a value equal to its threshold failing; a draft identical to the
\* single accepted text has overlap 1.0 and fails whenever the vocab threshold
\* is below 1.0.
C24_DiversityStrictlyBelowThresholds ==
    LET diversity == current_review.quality_scores.diversity
        limits == config.guardrails.diversity
        text == current_review.review_text
        corpus == [i \in 1..Len(accepted_reviews) |-> accepted_reviews[i].review_text]
    IN  (accepted_reviews /= <<>> /\ text /= NoText /\ diversity /= Absent) =>
            /\ diversity.vocab_overlap = AvgVocabOverlap(text, corpus)
            /\ diversity.semantic_similarity = MaxSemanticSimilarity(text, corpus)
            /\ diversity.pass <=>
                    /\ diversity.vocab_overlap[1] * 100
                            < limits.vocab_overlap_threshold * diversity.vocab_overlap[2]
                    /\ diversity.semantic_similarity < limits.semantic_similarity_threshold
            /\ (/\ diversity.vocab_overlap[1] * 100
                        = limits.vocab_overlap_threshold * diversity.vocab_overlap[2]) =>
                    ~diversity.pass
            /\ diversity.semantic_similarity = limits.semantic_similarity_threshold =>
                    ~diversity.pass
            /\ corpus = <<text>> =>
                    /\ diversity.vocab_overlap = <<1, 1>>
                    /\ limits.vocab_overlap_threshold < 100 => ~diversity.pass

\* a draft whose overlap is below the vocab threshold and whose similarity
\* is equal to the semantic threshold has been scored, and failed
C24_Witness ==
    LET diversity == current_review.quality_scores.diversity
        limits == config.guardrails.diversity
    IN  /\ accepted_reviews /= <<>>
        /\ current_review.review_text /= NoText
        /\ diversity /= Absent
        /\ diversity.vocab_overlap[1] * 100
                < limits.vocab_overlap_threshold * diversity.vocab_overlap[2]
        /\ diversity.semantic_similarity = limits.semantic_similarity_threshold
        /\ ~diversity.pass

C26_JudgeResponseParsing ==
    LET realism == current_review.quality_scores.realism
        judge == CHOOSE j \in env.judge_outcomes : TRUE
        HasNumber(s) == \E i \in 1..Len(s) : s[i] \in Digits
    IN  (/\ current_review.review_text /= NoText
         /\ realism /= Absent
         /\ "openai" \in env.api_keys
         /\ judge.kind = "text"
         /\ ~IsBlank(judge.response)) =>
            /\ judge.response = ScoreHigh => realism.realism_score = 85
            /\ judge.response = ScoreLow => realism.realism_score = 40
            /\ judge.response = <<"9">> => realism.realism_score = 90
            /\ ~HasNumber(judge.response) =>
                    realism.realism_score
                        = heuristic_realism_score(current_review.review_text)

\* C27: the realism judge model is chosen by preference over the whole
\* configured model list: a groq model if any is configured, wherever it is
\* in the list; else the first openai model whose name contains 'gpt'; else
\* the first configured model.
C27_JudgePrefersFastProvider ==
    LET models == config.models
        Fast == {i \in 1..Len(models) : models[i].provider = "groq"}
        Gpt == {i \in 1..Len(models) :
                    models[i].provider = "openai" /\ NameHasGpt(models[i].model)}
        preferred == IF Fast /= {} THEN models[Least(Fast)]
                     ELSE IF Gpt /= {} THEN models[Least(Gpt)]
                     ELSE models[1]
    IN  (/\ pc = "aggregate"
         /\ current_review.review_text /= NoText
         /\ current_review.quality_scores.realism /= Absent) =>
            ValidationModel(config) = preferred

\* C28: if the realism judge cannot be constructed, its call raises, or it
\* returns an empty or blank response, the realism score is the heuristic
\* score of the draft and realism passes iff that score >= the realism
\* threshold; the failure does not end the run and does not by itself make
\* the attempt invalid: the attempt is valid iff the three verdicts pass.
C28_JudgeFailureFallsBackToHeuristic ==
    LET scores == current_review.quality_scores
        judge == CHOOSE j \in env.judge_outcomes : TRUE
        text == current_review.review_text
        JudgeFails ==
            \/ "openai" \notin env.api_keys
            \/ judge.kind \in {"raise", "empty"}
            \/ judge.kind = "text" /\ \A i \in 1..Len(judge.response) : judge.response[i] = " "
    IN  (text /= NoText /\ scores.realism /= Absent /\ JudgeFails) =>
            /\ scores.realism.realism_score = heuristic_realism_score(text)
            /\ scores.realism.pass <=>
                    heuristic_realism_score(text)
                        >= config.guardrails.realism.realism_score_threshold
            /\ proc = Running
            /\ pc \in {"accept", "reject", "prepare_retry"} =>
                    /\ current_review.is_valid <=>
                            (scores.diversity.pass /\ scores.bias.pass /\ scores.realism.pass)
                    /\ pc = "accept" <=> current_review.is_valid

\* the judge could not be constructed for want of an API key, the heuristic
\* score of the draft is equal to the threshold, and the attempt is valid
C28_Witness ==
    /\ env.api_keys = {}
    /\ current_review.review_text /= NoText
    /\ pc = "accept"
    /\ current_review.is_valid
    /\ current_review.quality_scores.realism.realism_score
            = config.guardrails.realism.realism_score_threshold

\* C29: a scorer run on an attempt whose draft text is null or empty records
\* a failing sentinel, the same whatever the corpus, the judge and the API
\* keys: diversity (overlap 1.0, similarity 1.0, fail), bias (aligned false,
\* z 0.0, fail: the exemption of z = 0 does not make it pass), realism
\* (score 0.0, fail).
C29_EmptyDraftGetsSentinels ==
    LET scores == current_review.quality_scores
    IN  current_review.review_text = NoText =>
            /\ scores.diversity /= Absent =>
                    scores.diversity = [vocab_overlap |-> <<1, 1>>,
                                        semantic_similarity |-> 100,
                                        pass |-> FALSE]
            /\ scores.bias /= Absent =>
                    scores.bias = [sentiment_rating_aligned |-> FALSE,
                                   z_score |-> [dev |-> 0, var |-> 1],
                                   pass |-> FALSE]
            /\ scores.realism /= Absent =>
                    scores.realism = [realism_score |-> 0, pass |-> FALSE]

\* the three scorers have run on an empty draft of rating 3, with accepted
\* reviews in the corpus and a judge that would have given a high score
C29_Witness ==
    /\ current_review.review_text = NoText
    /\ current_review.rating = 3
    /\ accepted_reviews /= <<>>
    /\ env.judge_outcomes = {JudgeSays(ScoreHigh)}
    /\ env.api_keys = {"openai"}
    /\ pc = "aggregate"

-----------------------------------------------------------------------------
(* Sampling *)

\* C30: the sampling step always produces a fresh attempt: retry_count 0,
\* null draft text, empty score record, is_valid false, null rejection
\* reason, zero times, a rating that is a key of the configured rating
\* distribution (1..5), a persona and a model taken from the configured
\* lists; it clears the pending feedback and changes nothing else of the run
\* state.
C30_SamplingStartsAFreshAttempt ==
    [][(pc = "sample" /\ steps' = steps + 1) =>
            /\ current_review'.retry_count = 0
            /\ current_review'.review_text = NoText
            /\ current_review'.quality_scores = EmptyScores
            /\ ~current_review'.is_valid
            /\ current_review'.rejection_reason = None
            /\ current_review'.generation_time = 0
            /\ current_review'.evaluation_time = 0
            /\ current_review'.rating \in DOMAIN config.rating_distribution
            /\ current_review'.rating \in 1..5
            /\ \E p \in 1..Len(config.personas) :
                    current_review'.persona =
                        [name |-> config.personas[p].name,
                         tone |-> config.personas[p].tone,
                         expectations |-> config.personas[p].expectations]
            /\ \E m \in 1..Len(config.models) :
                    current_review'.model_id
                        = <<config.models[m].provider, ":">> \o config.models[m].model
            /\ DOMAIN current_review' =
                    {"persona", "rating", "model_id", "review_text", "quality_scores",
                     "is_valid", "rejection_reason", "generation_time", "evaluation_time",
                     "retry_count"}
            /\ feedback' = None
            /\ pc' = "generate"
            /\ UNCHANGED <<accepted_reviews, rejected_reviews, metrics_per_model,
                           config, target_size>>]_vars

\* an attempt has been sampled after an attempt that was rejected after a
\* retry, whose feedback was still pending
C30_Witness ==
    /\ pc = "generate"
    /\ drafts = 0
    /\ feedback = None
    /\ current_review.retry_count = 0
    /\ rejected_reviews /= <<>>
    /\ aliased = "none"
    /\ rejected_reviews[Len(rejected_reviews)].retry_count >= 1
    /\ Len(config.models) > 1 \/ Cardinality(DOMAIN config.rating_distribution) > 1

\* ---------------------------------------------------------------------------
\* C31: with accepted reviews, the bias verdict is aligned and (z below the
\* threshold or z = 0), z being |compound - mean| / std of the accepted
\* sentiments with std 1.0 for one review and z = 0 for std = 0; so a draft
\* whose sentiment is the mean, and every draft against two or more accepted
\* reviews of one sentiment, meets the z-score test at every threshold
C31_ZScoreVerdict ==
    (/\ current_review.quality_scores.bias /= Absent
     /\ current_review.review_text \in Texts
     /\ Len(accepted_reviews) > 0)
        => LET bias == current_review.quality_scores.bias
               compound == Compound(current_review.review_text)
               texts == AcceptedTexts(accepted_reviews)
               sentiments == [i \in 1..Len(texts) |-> Compound(texts[i])]
               n == Len(sentiments)
               total == SumSeq(sentiments)
               same == \A i \in 1..n : sentiments[i] = sentiments[1]
               limit == config.guardrails.bias.z_score_threshold
           IN  /\ bias.pass = (bias.sentiment_rating_aligned
                                /\ (ZBelow(bias.z_score, limit) \/ ZIsZero(bias.z_score)))
               /\ n = 1 => bias.z_score = [dev |-> Abs(compound - total), var |-> 10000]
               /\ (n * compound = total \/ (n >= 2 /\ same))
                    => /\ ZIsZero(bias.z_score)
                       /\ bias.pass = bias.sentiment_rating_aligned

\* C32: the recorded vocabulary overlap is the arithmetic mean, over all
\* accepted texts, of |A n B| / |A u B| for the lower-cased word sets of the
\* draft and of that text, and the recorded semantic similarity is the
\* largest similarity between the draft and any accepted text: both range
\* over the whole corpus, not over its latest entry
C32_DiversityOverWholeCorpus ==
    LET diversity == current_review.quality_scores.diversity
        text == current_review.review_text
        n == Len(accepted_reviews)
        words(i) == WordSet(accepted_reviews[i].review_text)
        common(i) == Cardinality(WordSet(text) \cap words(i))
        either(i) == Cardinality(WordSet(text) \cup words(i))
        product[i \in 0..n] == IF i = 0 THEN 1 ELSE product[i - 1] * either(i)
        sum[i \in 0..n] ==
            IF i = 0 THEN 0 ELSE sum[i - 1] + common(i) * (product[n] \div either(i))
        similarity(i) ==
            Similarity(Embedding(text), Embedding(accepted_reviews[i].review_text))
    IN  (n > 0 /\ text \in Texts /\ diversity /= Absent) =>
            /\ diversity.vocab_overlap[1] * n * product[n]
                    = diversity.vocab_overlap[2] * sum[n]
            /\ \A i \in 1..n : diversity.semantic_similarity >= similarity(i)
            /\ \E i \in 1..n : diversity.semantic_similarity = similarity(i)

\* a draft has been scored against two accepted texts, and neither recorded
\* value is the one the latest accepted text alone would give
C32_Witness ==
    LET diversity == current_review.quality_scores.diversity
        text == current_review.review_text
        latest == accepted_reviews[Len(accepted_reviews)].review_text
    IN  /\ Len(accepted_reviews) >= 2
        /\ text \in Texts
        /\ diversity /= Absent
        /\ diversity.vocab_overlap /= Jaccard(WordSet(text), WordSet(latest))
        /\ diversity.semantic_similarity > Similarity(Embedding(text), Embedding(latest))

\* C33: when every external call returns and the step limit is not hit, every
\* run reaches the finished state; the number of finalized attempts never
\* exceeds 10 x target_size + 1 and the number of drafts never exceeds
\* (10 x target_size + 1) x (max_retries + 1)
C33_RunsFinish ==
    /\ [](LET most == AttemptFactor * target_size + 1
              stored == accepted_reviews \o rejected_reviews
              inflight == IF pc \in {"sample", "END"} THEN 0 ELSE drafts
              drafted == SumSeq([i \in 1..Len(stored) |-> stored[i].retry_count + 1])
                            + inflight
          IN  /\ Finalized <= most
              /\ pc \notin {"sample", "END"} => Finalized < most
              /\ drafted <= most * (config.guardrails.max_retries + 1))
    /\ <>(\/ proc = Saved
          \/ proc.status = "exited"
          \/ pc = "sample" /\ Finalized >= env.max_attempts)

\* a run in which no draft is accepted has been saved after 10 x target_size
\* + 1 attempts of max_retries + 1 drafts each, within the step limit
C33_Witness ==
    /\ proc = Saved
    /\ target_size >= 1
    /\ config.guardrails.max_retries >= 1
    /\ steps < RecursionLimit(target_size, config)
    /\ Len(rejected_reviews) = AttemptFactor * target_size + 1
    /\ \A i \in 1..Len(rejected_reviews) :
            rejected_reviews[i].retry_count = config.guardrails.max_retries

\* C34: for target_size >= 1 the number of accepted reviews never exceeds
\* target_size; when the run finishes because the target was reached it is
\* target_size exactly; and no attempt is sampled after the acceptance that
\* reaches the target
C34_NeverMoreThanTarget ==
    target_size >= 1 =>
        /\ Len(accepted_reviews) <= target_size
        /\ (pc = "END" /\ Len(accepted_reviews) >= target_size)
                => Len(accepted_reviews) = target_size
        /\ pc \in GraphNodes => Len(accepted_reviews) < target_size
        /\ (pc = "END" /\ Len(accepted_reviews) = target_size)
                => current_review = accepted_reviews[target_size]

\* a run has finished on the acceptance that reached its target, after a
\* rejected attempt, and has been saved
C34_Witness ==
    /\ target_size >= 1
    /\ pc = "END"
    /\ Len(accepted_reviews) = target_size
    /\ Len(rejected_reviews) >= 1
    /\ proc = Saved

\* C35: the finish conditions are evaluated only after an attempt has been
\* finalized, never before the first sampling: every run that finishes,
\* also one of target_size 0, has sampled, drafted and finalized at least one
\* attempt, and a run of target_size 0 ends with exactly one finalized
\* attempt, which may be an accepted one
C35_FinishOnlyAfterAnAttempt ==
    /\ pc = "END" =>
            /\ Finalized >= 1
            /\ drafts >= 1
            /\ current_review /= InitialReview
    /\ Finalized = 0 => pc /= "END"
    /\ target_size = 0 =>
            /\ Finalized <= 1
            /\ pc = "END" => Finalized = 1
            /\ (pc = "sample" /\ proc.status = "running") => Finalized = 0

\* a run of target_size 0 has ended with one accepted review
C35_Witness ==
    /\ target_size = 0
    /\ pc = "END"
    /\ Len(accepted_reviews) = 1
    /\ rejected_reviews = <<>>
    /\ proc = Saved

\* C36: in every reachable state every accepted entry has is_valid true, no
\* rejection reason, a non-empty draft text and retry_count <= max_retries;
\* every rejected entry has is_valid false, a rejection reason and
\* retry_count = max_retries exactly; no attempt is in both lists
C36_StoredEntriesWellFormed ==
    /\ \A i \in 1..Len(accepted_reviews) :
            LET review == accepted_reviews[i]
            IN  /\ review.is_valid = TRUE
                /\ review.rejection_reason = None
                /\ review.review_text \in Texts
                /\ TextWords(review.review_text) /= <<>>
                /\ review.retry_count \in 0..config.guardrails.max_retries
    /\ \A j \in 1..Len(rejected_reviews) :
            LET review == rejected_reviews[j]
            IN  /\ review.is_valid = FALSE
                /\ review.rejection_reason /= None
                /\ review.retry_count = config.guardrails.max_retries
    /\ \A i \in 1..Len(accepted_reviews), j \in 1..Len(rejected_reviews) :
            accepted_reviews[i] /= rejected_reviews[j]

\* one attempt was accepted on a retry and another rejected after
\* max_retries >= 1 retries
C36_Witness ==
    /\ config.guardrails.max_retries >= 1
    /\ \E i \in 1..Len(accepted_reviews) : accepted_reviews[i].retry_count >= 1
    /\ \E j \in 1..Len(rejected_reviews) :
            rejected_reviews[j].retry_count = config.guardrails.max_retries

\* C37: whenever aggregation runs, each of the three guardrail records it
\* reads was written after the latest draft of the same attempt and against
\* the current accepted corpus; verdicts of an earlier draft or attempt are
\* never used, because the retry step and sampling reset the score record;
\* and a guardrail without a record counts as failed
C37_AggregationReadsFreshScores ==
    /\ pc = "generate" => current_review.quality_scores = EmptyScores
    /\ pc = "diversity_check" => current_review.quality_scores = EmptyScores
    /\ pc = "aggregate" =>
            LET scores == current_review.quality_scores
            IN  /\ scores.diversity = DiversityScores(current_review, accepted_reviews, config)
                /\ scores.bias = BiasScores(current_review, accepted_reviews, config)
                /\ \E judge \in env.judge_outcomes \cup {JudgeRaise} :
                        scores.realism = RealismScores(current_review, config,
                                                       env.api_keys, judge)
                /\ \A g \in Guardrails :
                        ~AllPass([current_review EXCEPT !.quality_scores[g] = Absent])

\* the second draft of an attempt is about to be aggregated with a corpus
\* that holds a review, and its diversity record differs from the one its
\* first draft would get now
C37_Witness ==
    /\ pc = "aggregate"
    /\ current_review.retry_count >= 1
    /\ Len(accepted_reviews) >= 1
    /\ \E t \in Texts :
            current_review.quality_scores.diversity
                /= DiversityScores([current_review EXCEPT !.review_text = t],
                                   accepted_reviews, config)

\* C38: within a run the model lookup of the drafting stage never fails: the
\* model identifier of the attempt in flight is always "provider:model" of a
\* configured model, also when the model name itself contains ":", so the
\* "Model config not found" error cannot occur after sampling: whenever the
\* drafting stage is about to run, its lookup finds a configured model
C38_ModelLookupNeverFails ==
    /\ (pc \in GraphNodes \ {"sample"}) =>
            \E i \in 1..Len(config.models) :
                current_review.model_id = ModelId(config.models[i])
    /\ pc = "generate" =>
            /\ MatchingModels(config, current_review.model_id) /= {}
            /\ SplitModelId(current_review.model_id).provider_name
                    \in {<<p>> : p \in Providers}
            /\ \A i \in MatchingModels(config, current_review.model_id) :
                    ModelId(config.models[i]) = current_review.model_id

\* a draft has been generated by a model whose name contains ":"
C38_Witness ==
    /\ pc = "diversity_check"
    /\ current_review.review_text \in Texts
    /\ \E k \in 1..Len(SplitModelId(current_review.model_id).model_name) :
            SplitModelId(current_review.model_id).model_name[k] = ":"

\* C39: the evaluation_time of an attempt accumulates over all scorer runs of
\* all its drafts and is not reset by the retry step, while its
\* generation_time is overwritten by each draft and holds the time of the last
\* draft only; so the summed evaluation time of a model covers every draft of
\* its finalized attempts and its summed generation time only the last draft
\* of each. Every draft and every scorer run takes Tick; the sums are
\* compared whenever an attempt has just been finalized.
C39_TimesPerAttempt ==
    LET Times(review) ==
            /\ review.generation_time = Tick
            /\ review.evaluation_time = 3 * Tick * (review.retry_count + 1)
        stored == accepted_reviews \o rejected_reviews
        Of(id) == SelectSeq(stored, LAMBDA r : r.model_id = id)
    IN  /\ pc \in {"aggregate", "accept", "reject"} =>
                /\ Times(current_review)
                /\ drafts = current_review.retry_count + 1
        /\ pc = "prepare_retry" => Times(current_review)
        /\ pc = "generate" =>
                /\ current_review.evaluation_time = 3 * Tick * current_review.retry_count
                /\ current_review.generation_time
                        = (IF current_review.retry_count = 0 THEN 0 ELSE Tick)
        /\ \A i \in 1..Len(stored) : Times(stored[i])
        /\ \A id \in (IF pc \in {"sample", "END"} THEN DOMAIN metrics_per_model ELSE {}) :
                /\ metrics_per_model[id].total_generation_time = Tick * Len(Of(id))
                /\ metrics_per_model[id].total_evaluation_time
                        = 3 * Tick * SumSeq([i \in 1..Len(Of(id)) |->
                                                Of(id)[i].retry_count + 1])

\* an attempt has been finalized after three drafts: nine scorer runs in its
\* evaluation time and one draft in its generation time, in the attempt and
\* in the sums of its model
C39_Witness ==
    \E i \in 1..Len(rejected_reviews) :
        LET review == rejected_reviews[i]
        IN  /\ review.retry_count = 2
            /\ review.evaluation_time = 9 * Tick
            /\ review.generation_time = Tick
            /\ Len(rejected_reviews) = 1
            /\ accepted_reviews = <<>>
            /\ metrics_per_model[review.model_id].total_evaluation_time = 9 * Tick
            /\ metrics_per_model[review.model_id].total_generation_time = Tick

====
